---- MODULE Spec2Model ----
(***************************************************************************)
(* A model of the kmath 3D projective-geometric-algebra library: rotors,   *)
(* motors, flat primitives and the 16-coefficient multivector.             *)
(*                                                                         *)
(* The library is a set of pure functions over a scalar type T (float or   *)
(* double).  Scalars are modelled exactly: a scalar is a Laurent           *)
(* polynomial in pi with coefficients p + q * sqrt(2), p and q rational,   *)
(* so that sums, products, quotients, the square roots of perfect squares  *)
(* and the circular functions at multiples of pi/4 are computed as the     *)
(* C++ computes them, without rounding.  An operation whose exact result   *)
(* is not of that form (the square root of 3, the cosine of 1) has no      *)
(* value in the model and the inputs are drawn so that it is never asked   *)
(* for.  Where the rounding of T decides a result (the arc cosine that     *)
(* sclerp takes of a product of unit motors), the arithmetic of T is       *)
(* computed bit by bit beside the exact one.                               *)
(***************************************************************************)
EXTENDS Integers, Sequences, FiniteSets, TLC

VARIABLES pc, args, res

vars == <<pc, args, res>>

(***************************************************************************)
(* Scalars.  A scalar is a sequence of terms <<h, n, d>>, each standing    *)
(* for (n/d) * pi^(h \div 2) * sqrt(2)^(h % 2), with strictly increasing   *)
(* h, n # 0, d > 0 and n/d in lowest terms; the empty sequence is 0.  The  *)
(* representation is canonical, so equality of scalars is equality of      *)
(* sequences.  The three values of T that are not numbers are kept apart   *)
(* from the sums of terms: INFINITY, -INFINITY and NAN, with the           *)
(* arithmetic of IEEE 754; and so is STALE, a value that the program did   *)
(* not store.                                                              *)
(***************************************************************************)

\* The value of an operation that has no exactly representable result.
Undefined == CHOOSE x \in {} : TRUE

IAbs(n) == IF n < 0 THEN -n ELSE n

RECURSIVE GCD(_, _)
GCD(a, b) == IF b = 0 THEN a ELSE GCD(b, a % b)

\* The term <<e, n, d>> in lowest terms, g being the gcd of |n| and |d|.
Lowest(e, n, d, g) ==
  IF d < 0 THEN <<e, (-n) \div g, (-d) \div g>> ELSE <<e, n \div g, d \div g>>

Term(e, n, d) == Lowest(e, n, d, GCD(IAbs(n), IAbs(d)))

\* The scalar of the one term <<e, n, d>>.
Single(e, n, d) == IF n = 0 THEN <<>> ELSE <<Term(e, n, d)>>

\* The rational n/d and the integer n as scalars.
Q(n, d) == Single(0, n, d)
I(n) == IF n = 0 THEN <<>> ELSE <<<<0, n, 1>>>>

\* pi itself.
PI == <<<<2, 1, 1>>>>

\* The square root of 2, and its half: the cosine of pi/4.
SQRT2 == <<<<1, 1, 1>>>>
HALF_SQRT2 == <<<<1, 1, 2>>>>

\* std::numeric_limits<T>::infinity()
INFINITY == <<<<0, 1, 0>>>>

\* The value of 0 * INFINITY, INFINITY - INFINITY and INFINITY / INFINITY.
NAN == <<<<0, 0, 0>>>>

IsNaN(a) == a = NAN

\* A coefficient read from memory that the program did not write: it stands
\* for any value of T, the arguments of the call do not determine it, and
\* neither do they determine what is computed from it.
STALE == <<<<1, 0, 0>>>>

\* Whether a is neither an infinity nor NAN nor STALE.
IsFinite(a) == a = <<>> \/ a[1][3] # 0

IsInf(a) == a = INFINITY \/ a = <<<<0, -1, 0>>>>

\* INFINITY with the sign s, and NAN for s = 0.
SignedInfinity(s) == IF s = 0 THEN NAN ELSE <<<<0, s, 0>>>>

\* The sum of two terms t and u of one exponent, g being the gcd of their
\* denominators.
TermSum(t, u, g) ==
  Single(t[1], t[2] * (u[3] \div g) + u[2] * (t[3] \div g), t[3] * (u[3] \div g))

\* The sum of two finite scalars.
RECURSIVE TermsAdd(_, _)
TermsAdd(a, b) ==
  IF a = <<>> THEN b
  ELSE IF b = <<>> THEN a
  ELSE (IF a[1][1] < b[1][1] THEN <<a[1]>>
        ELSE IF b[1][1] < a[1][1] THEN <<b[1]>>
        ELSE TermSum(a[1], b[1], GCD(a[1][3], b[1][3])))
       \o TermsAdd(IF b[1][1] < a[1][1] THEN a ELSE Tail(a),
                   IF a[1][1] < b[1][1] THEN b ELSE Tail(b))

\* a + b: NAN for INFINITY + (-INFINITY).
RAdd(a, b) ==
  IF IsFinite(a) /\ IsFinite(b) THEN TermsAdd(a, b)
  ELSE IF a = STALE \/ b = STALE THEN STALE
  ELSE IF IsNaN(a) \/ IsNaN(b) THEN NAN
  ELSE IF IsInf(a) THEN (IF IsInf(b) /\ b # a THEN NAN ELSE a)
  ELSE IF IsInf(b) THEN b
  ELSE TermsAdd(a, b)

RNeg(a) == [i \in 1..Len(a) |-> <<a[i][1], -a[i][2], a[i][3]>>]

RSub(a, b) == RAdd(a, RNeg(b))

\* The product of two terms, g and h being the gcds of the numerator of one
\* and the denominator of the other.
CrossReduced(t, u, g, h) ==
  <<t[1] + u[1], (t[2] \div g) * (u[2] \div h), (t[3] \div h) * (u[3] \div g)>>

\* The term c, with sqrt(2)^2 replaced by 2 where it is the product of two
\* terms that both have sqrt(2).
TwiceRoot(c, both) == IF both THEN Term(c[1] - 2, 2 * c[2], c[3]) ELSE c

TermMul(t, u) ==
  TwiceRoot(CrossReduced(t, u, GCD(IAbs(t[2]), u[3]), GCD(IAbs(u[2]), t[3])),
            t[1] % 2 = 1 /\ u[1] % 2 = 1)

\* The product of the single term t with the scalar b.
ScaleTerm(t, b) == [i \in 1..Len(b) |-> TermMul(t, b[i])]

\* The product of two finite scalars.
RECURSIVE TermsMul(_, _)
TermsMul(a, b) ==
  IF a = <<>> \/ b = <<>> THEN <<>>
  ELSE TermsAdd(ScaleTerm(a[1], b), TermsMul(Tail(a), b))

RECURSIVE ISqrtIter(_, _, _)
ISqrtIter(n, lo, hi) ==
  IF lo >= hi THEN lo
  ELSE IF ((lo + hi + 1) \div 2) * ((lo + hi + 1) \div 2) <= n
       THEN ISqrtIter(n, (lo + hi + 1) \div 2, hi)
       ELSE ISqrtIter(n, lo, ((lo + hi + 1) \div 2) - 1)

\* The integer square root of n, rounded down (0 for a negative n).
ISqrt(n) == ISqrtIter(n, 0, IF n < 46340 THEN n ELSE 46340)

\* Whether the square of the term <<h \div 2, n, d>> is the term t = <<h, _, _>>,
\* h being a multiple of 4: an even power of pi and no sqrt(2).
IsRootOf(n, d, t) == t[1] % 4 = 0 /\ n * n = t[2] /\ d * d = t[3]

\* Whether std::sqrt(a) is exactly representable.
HasSqrt(a) ==
  \/ a = <<>>
  \/ Len(a) = 1 /\ IsRootOf(ISqrt(a[1][2]), ISqrt(a[1][3]), a[1])

Root(n, d, t) == IF IsRootOf(n, d, t) THEN <<<<t[1] \div 2, n, d>>>> ELSE Undefined

\* std::sqrt
RSqrt(a) ==
  IF a = <<>> THEN <<>>
  ELSE IF a = STALE THEN STALE
  ELSE IF IsNaN(a) \/ a = RNeg(INFINITY) THEN NAN
  ELSE IF Len(a) = 1 THEN Root(ISqrt(a[1][2]), ISqrt(a[1][3]), a[1])
  ELSE Undefined

\* b^k for the few exponents of pi that occur.
Pow(b, k) ==
  IF k = 0 THEN 1
  ELSE IF k = 1 THEN b
  ELSE IF k = 2 THEN b * b
  ELSE IF k = 3 THEN b * b * b
  ELSE Undefined

\* The exponent of pi in the term t.
PiExponent(t) == t[1] \div 2

\* Bounds are fractions <<n, d>> with d > 0, not in lowest terms: the
\* fraction bounding the term t when pn/pd bounds pi and rn/rd bounds
\* sqrt(2), if the term has it.
PowBound(t, pn, pd, rn, rd) ==
  <<t[2] * Pow(IF PiExponent(t) >= 0 THEN pn ELSE pd, IAbs(PiExponent(t)))
         * (IF t[1] % 2 = 1 THEN rn ELSE 1),
    t[3] * Pow(IF PiExponent(t) >= 0 THEN pd ELSE pn, IAbs(PiExponent(t)))
         * (IF t[1] % 2 = 1 THEN rd ELSE 1)>>

\* Whether the bound of the term t takes the lower bound of pi.
FromBelow(t, lower) == (t[2] > 0) = ((PiExponent(t) >= 0) = lower)

\* The lower or the upper bound of the term t, from 3 < pi < 22/7 and
\* 7/5 < sqrt(2) < 17/12.
TermBound(t, lower) ==
  PowBound(t, IF FromBelow(t, lower) THEN 3 ELSE 22, IF FromBelow(t, lower) THEN 1 ELSE 7,
           IF (t[2] > 0) = lower THEN 7 ELSE 17, IF (t[2] > 0) = lower THEN 5 ELSE 12)

FracAdd(p, q) == <<p[1] * q[2] + q[1] * p[2], p[2] * q[2]>>

\* <<lower bound, upper bound>> of a scalar.
RECURSIVE Bounds(_)
Bounds(a) ==
  IF a = <<>> THEN << <<0, 1>>, <<0, 1>> >>
  ELSE << FracAdd(TermBound(a[1], TRUE), Bounds(Tail(a))[1]),
          FracAdd(TermBound(a[1], FALSE), Bounds(Tail(a))[2]) >>

\* a/b < c/d for naturals a, c and positive b, d, by continued fractions
\* (no product is formed, so that nothing overflows).
RECURSIVE FracLess(_, _, _, _)
FracLess(a, b, c, d) ==
  IF a \div b # c \div d THEN a \div b < c \div d
  ELSE IF c % d = 0 THEN FALSE
  ELSE IF a % b = 0 THEN TRUE
  ELSE FracLess(d, c % d, b, a % b)

\* p < q for fractions of either sign.
SignedLess(p, q) ==
  IF (p[1] < 0) # (q[1] < 0) THEN p[1] < 0
  ELSE IF p[1] < 0 THEN FracLess(-q[1], q[2], -p[1], p[2])
  ELSE FracLess(p[1], p[2], q[1], q[2])

\* a < b for scalars within the bounds ba and bb: sure when the upper
\* bound of a is below the lower bound of b, excluded when the lower bound
\* of a is not below the upper bound of b.
BoundsLess(ba, bb) ==
  IF SignedLess(ba[2], bb[1]) THEN TRUE
  ELSE IF ~SignedLess(ba[1], bb[2]) THEN FALSE
  ELSE Undefined

\* a < b: false when a or b is NAN.  A comparison with STALE can go either
\* way: the model follows the way of NAN, and the other way is taken by the
\* stale value 0.
RLess(a, b) ==
  IF IsNaN(a) \/ IsNaN(b) \/ a = b \/ a = STALE \/ b = STALE THEN FALSE
  ELSE IF a = RNeg(INFINITY) \/ b = INFINITY THEN TRUE
  ELSE IF a = INFINITY \/ b = RNeg(INFINITY) THEN FALSE
  ELSE BoundsLess(Bounds(a), Bounds(b))

\* The sign of a scalar within the bounds b.
BoundSign(b) == IF b[1][1] > 0 THEN 1 ELSE IF b[2][1] < 0 THEN -1 ELSE Undefined

\* The sign of a scalar other than NAN: -1, 0 or 1.
RSign(a) ==
  IF a = <<>> THEN 0
  ELSE IF IsNaN(a) THEN Undefined
  ELSE IF Len(a) = 1 THEN (IF a[1][2] > 0 THEN 1 ELSE -1)
  ELSE BoundSign(Bounds(a))

\* a >= b: false when a or b is NAN.
RGeq(a, b) == ~IsNaN(a) /\ ~IsNaN(b) /\ a # STALE /\ b # STALE /\ ~RLess(a, b)

\* std::abs
RAbs(a) == IF IsNaN(a) THEN NAN ELSE IF RSign(a) < 0 THEN RNeg(a) ELSE a

\* a * b: NAN for 0 * INFINITY.
RMul(a, b) ==
  IF IsFinite(a) /\ IsFinite(b) THEN TermsMul(a, b)
  ELSE IF a = STALE \/ b = STALE THEN STALE
  ELSE IF IsNaN(a) \/ IsNaN(b) THEN NAN
  ELSE IF IsInf(a) \/ IsInf(b) THEN SignedInfinity(RSign(a) * RSign(b))
  ELSE TermsMul(a, b)

\* The term 1 / t: 1 / sqrt(2) is sqrt(2) / 2.
Reciprocal(t) ==
  IF t[1] % 2 = 1 THEN Term(2 - t[1], t[3], 2 * t[2]) ELSE Term(-t[1], t[3], t[2])

\* a / b, for a finite divisor of a single term (a non-zero rational times a
\* power of pi and of sqrt(2)) or an infinite one; 0 / 0 is NAN, and any
\* other quotient by 0 has the sign of the zero, which the model does not keep.
RDiv(a, b) ==
  IF a = STALE \/ b = STALE THEN STALE
  ELSE IF IsNaN(a) \/ IsNaN(b) THEN NAN
  ELSE IF IsInf(b) THEN (IF IsInf(a) THEN NAN ELSE <<>>)
  ELSE IF b = <<>> THEN (IF a = <<>> THEN NAN ELSE Undefined)
  ELSE IF IsInf(a) THEN SignedInfinity(RSign(a) * RSign(b))
  ELSE IF Len(b) = 1 THEN ScaleTerm(Reciprocal(b[1]), a)
  ELSE Undefined

\* Whether x is an integer multiple of pi/4, and which.
IsEighthTurns(x) ==
  \/ x = <<>>
  \/ Len(x) = 1 /\ x[1][1] = 2 /\ (4 * x[1][2]) % x[1][3] = 0

EighthTurns(x) ==
  IF x = <<>> THEN 0
  ELSE IF IsEighthTurns(x) THEN (4 * x[1][2]) \div x[1][3]
  ELSE Undefined

\* The cosine of k eighths of a turn, and the sine: the cosine a quarter
\* turn before.
CosTurns(k) ==
  CASE k = 0 -> I(1)  [] k = 1 -> HALF_SQRT2       [] k = 2 -> I(0) [] k = 3 -> RNeg(HALF_SQRT2)
    [] k = 4 -> I(-1) [] k = 5 -> RNeg(HALF_SQRT2) [] k = 6 -> I(0) [] k = 7 -> HALF_SQRT2
SinTurns(k) == CosTurns((k + 6) % 8)

\* std::cos and std::sin, at the multiples of pi/4.
RCos(x) ==
  IF x = STALE THEN STALE
  ELSE IF IsNaN(x) \/ IsInf(x) THEN NAN ELSE CosTurns(EighthTurns(x) % 8)
RSin(x) ==
  IF x = STALE THEN STALE
  ELSE IF IsNaN(x) \/ IsInf(x) THEN NAN ELSE SinTurns(EighthTurns(x) % 8)

RAcos(x) ==
  CASE x = STALE -> STALE
    [] IsNaN(x) \/ IsInf(x) -> NAN
    [] x = I(1) -> I(0)
    [] x = HALF_SQRT2 -> <<<<2, 1, 4>>>>
    [] x = I(0) -> <<<<2, 1, 2>>>>
    [] x = RNeg(HALF_SQRT2) -> <<<<2, 3, 4>>>>
    [] x = I(-1) -> PI
    [] OTHER -> Undefined

\* atan2 from the signs sy and sx of y and x: k * pi / 4.
Atan2Turns(sy, sx, diagonal) ==
  CASE sy = 0 /\ sx > 0 -> I(0)
    [] sy = 0 /\ sx < 0 -> PI
    [] sx = 0 /\ sy # 0 -> <<<<2, sy, 2>>>>
    [] sx > 0 /\ sy # 0 /\ diagonal -> <<<<2, sy, 4>>>>
    [] sx < 0 /\ sy # 0 /\ diagonal -> <<<<2, 3 * sy, 4>>>>
    [] OTHER -> Undefined

RAtan2(y, x) ==
  IF y = STALE \/ x = STALE THEN STALE
  ELSE IF IsNaN(y) \/ IsNaN(x) THEN NAN
  ELSE IF IsInf(y) THEN Atan2Turns(RSign(y), IF IsInf(x) THEN RSign(x) ELSE 0, IsInf(x))
  ELSE IF x = INFINITY THEN I(0)
  ELSE IF IsInf(x) THEN (IF RSign(y) < 0 THEN RNeg(PI) ELSE PI)
  ELSE Atan2Turns(RSign(y), RSign(x), RAbs(x) = RAbs(y))

\* std::exp at 0 and std::log at 1, and at the infinities.
RExp(x) ==
  CASE x = <<>> -> I(1)
    [] x = STALE -> STALE
    [] x = INFINITY -> INFINITY
    [] x = RNeg(INFINITY) -> I(0)
    [] IsNaN(x) -> NAN
    [] OTHER -> Undefined

RLog(x) ==
  CASE x = I(1) -> I(0)
    [] x = STALE -> STALE
    [] x = I(0) -> RNeg(INFINITY)
    [] x = INFINITY -> INFINITY
    [] x = RNeg(INFINITY) \/ IsNaN(x) -> NAN
    [] OTHER -> Undefined

\* The arithmetic of T, written infix as in the source.
a (+) b == RAdd(a, b)
a (-) b == RSub(a, b)
a (.) b == RMul(a, b)
a (/) b == RDiv(a, b)

\* A polynomial of the source, given by its monomials in the order of the
\* source: the monomial <<k, x1, ..., xn>> is k * x1 * ... * xn.
RECURSIVE Factors(_)
Factors(f) == IF f = <<>> THEN I(1) ELSE RMul(f[1], Factors(Tail(f)))

RECURSIVE Polynomial(_)
Polynomial(monomials) ==
  IF monomials = <<>> THEN <<>>
  ELSE RAdd(Factors(<<I(monomials[1][1])>> \o Tail(monomials[1])),
            Polynomial(Tail(monomials)))

(***************************************************************************)
(* utils.hpp                                                               *)
(***************************************************************************)

KMATH_EPSILON == <<<<0, 1, 100000>>>>

\* a < KMATH_EPSILON * KMATH_EPSILON, for a >= 0.  Both sides are divided
\* by the positive KMATH_EPSILON: its square does not fit the integers the
\* model computes with.
BelowEpsilon2(a) == RLess(a (/) KMATH_EPSILON, KMATH_EPSILON)

\* is_approx_zero<double>, is_approx_zero<float>
is_approx_zero(a) == RLess(RAbs(a), KMATH_EPSILON)

\* kmath.hpp: is_approx_zero<double>, is_approx_zero<float>
is_approx_zero_hpp(a) == RLess(RAbs(a), KMATH_EPSILON)

\* kmath.cpp: #define EPSILON 0.00001
EPSILON == <<<<0, 1, 100000>>>>

\* kmath.cpp: is_approx_zero(const double a)
is_approx_zero_cpp(a) == RLess(a, EPSILON)

is_square_approx_zero(a) == BelowEpsilon2(RAbs(a))

(***************************************************************************)
(* vector.hpp: _Vec3                                                       *)
(***************************************************************************)

Vec3(x, y, z) == [x |-> x, y |-> y, z |-> z]

Vec3_ZERO == Vec3(I(0), I(0), I(0))
Vec3_INF == Vec3(INFINITY, INFINITY, INFINITY)
Vec3_X == Vec3(I(1), I(0), I(0))
Vec3_Y == Vec3(I(0), I(1), I(0))
Vec3_Z == Vec3(I(0), I(0), I(1))

length_squared_Vec3(v) ==
  Polynomial(<< <<1, v.x, v.x>>, <<1, v.y, v.y>>, <<1, v.z, v.z>> >>)

length_Vec3(v) == RSqrt(length_squared_Vec3(v))

\* operator+(_Vec3, _Vec3)
Vec3_add(a, b) == Vec3(a.x (+) b.x, a.y (+) b.y, a.z (+) b.z)

\* operator-(_Vec3, _Vec3)
Vec3_sub(a, b) == Vec3(a.x (-) b.x, a.y (-) b.y, a.z (-) b.z)

\* operator*(T, _Vec3)
Vec3_scale(s, v) == Vec3(s (.) v.x, s (.) v.y, s (.) v.z)

\* Whether a coordinate of v is an infinity.
HasInfinite(v) == IsInf(v.x) \/ IsInf(v.y) \/ IsInf(v.z)

\* s * v for s the std::sin or std::cos of an angle other than 0.  Where s is 0
\* in exact arithmetic the code holds the residue of the rounding of the angle
\* (sin(pi) is 1.2e-16 in double and -8.7e-8 in float), and its product with
\* an infinity is an infinity of the sign of the residue where the exact
\* product is NaN: the model has no value for it.
Vec3_scale_residue(s, v) ==
  IF s = I(0) /\ HasInfinite(v) THEN Undefined ELSE Vec3_scale(s, v)

\* Whether a coordinate of v is a number other than 0.
HasNonZero(v) ==
  \E c \in {v.x, v.y, v.z} : c # I(0) /\ ~IsNaN(c)

\* Whether the product of the translation (0, translation / 2) with the
\* rotation from_axis_angle(axis, angle) multiplies the residue of a sine or
\* cosine that is 0 in exact arithmetic with an infinity: the cosine of the
\* half angle multiplies every coordinate of the translation, its sine times
\* a coordinate of the axis does too.
HalfAngleResidueTimesInfinity(axis, angle, translation) ==
  /\ HasInfinite(translation)
  /\ \/ RCos(angle (/) I(2)) = I(0)
     \/ angle # I(0) /\ RSin(angle (/) I(2)) = I(0) /\ HasNonZero(axis)

\* The product of a coordinate a with 1 / 0, an infinity that has the sign of
\* the zero: not a number when a is zero or not a number, and otherwise an
\* infinity whose sign the model does not have.
TimesInverseOfZero(a) ==
  IF a = STALE THEN STALE ELSE IF a = I(0) \/ IsNaN(a) THEN NAN ELSE Undefined

\* operator/(_Vec3, T): multiplies by scale = 1 / s
Vec3_div(v, s) ==
  IF s = I(0)
  THEN Vec3(TimesInverseOfZero(v.x), TimesInverseOfZero(v.y), TimesInverseOfZero(v.z))
  ELSE Vec3_scale(I(1) (/) s, v)

\* A variant of lerp that leaves a unweighted: a + t b.
lerp_Vec3_unweighted(a, b, t) == Vec3_add(a, Vec3_scale(t, b))

\* lerp<T, _Vec3<T>>
lerp_Vec3(a, b, t) == Vec3_add(Vec3_scale(I(1) (-) t, a), Vec3_scale(t, b))

(***************************************************************************)
(* rotor_3d.hpp: _Rotor3, the rotor s + e23 e23 + e31 e31 + e12 e12        *)
(***************************************************************************)

\* _Rotor3(T s, T e23, T e31, T e12)
Rotor3(s, e23, e31, e12) == [s |-> s, e23 |-> e23, e31 |-> e31, e12 |-> e12]

\* _Rotor3(T s, const _Vec3<T> &v)
Rotor3_sv(s, v) == Rotor3(s, v.x, v.y, v.z)

Rotor3_ZERO == Rotor3(I(0), I(0), I(0), I(0))
Rotor3_IDENTITY == Rotor3(I(1), I(0), I(0), I(0))

\* _Rotor3::from_axis_angle
Rotor3_from_axis_angle(axis, angle) ==
  Rotor3_sv(RCos(angle (/) I(2)),
            IF angle = I(0)
            THEN Vec3_scale(RSin(angle (/) I(2)), axis)
            ELSE Vec3_scale_residue(RSin(angle (/) I(2)), axis))

\* Variant of the reverse that keeps the sign of the e12 coefficient.
reverse_Rotor3_partial(r) == Rotor3(r.s, RNeg(r.e23), RNeg(r.e31), r.e12)

reverse_Rotor3(r) == Rotor3(r.s, RNeg(r.e23), RNeg(r.e31), RNeg(r.e12))

length_squared_Rotor3(r) ==
  Polynomial(<< <<1, r.s, r.s>>, <<1, r.e23, r.e23>>, <<1, r.e31, r.e31>>,
                <<1, r.e12, r.e12>> >>)

length_Rotor3(r) == RSqrt(length_squared_Rotor3(r))

get_direction(r) == Vec3(r.e23, r.e31, r.e12)

\* operator*(T, _Rotor3)
Rotor3_scale(a, b) == Rotor3(b.s (.) a, b.e23 (.) a, b.e31 (.) a, b.e12 (.) a)

\* operator/(_Rotor3, T)
Rotor3_div(a, b) == Rotor3(a.s (/) b, a.e23 (/) b, a.e31 (/) b, a.e12 (/) b)

\* inverse(_Rotor3)
inverse_Rotor3(r) == Rotor3_div(r, length_squared_Rotor3(r))

\* operator*(_Rotor3, _Rotor3)
Rotor3_mul(a, b) ==
  [s |-> Polynomial(<< <<-1, a.e23, b.e23>>, <<-1, a.e31, b.e31>>, <<-1, a.e12, b.e12>>,
                       <<1, a.s, b.s>> >>),
   e23 |-> Polynomial(<< <<1, a.s, b.e23>>, <<1, a.e23, b.s>>, <<1, a.e31, b.e12>>,
                         <<-1, a.e12, b.e31>> >>),
   e31 |-> Polynomial(<< <<1, a.s, b.e31>>, <<1, a.e31, b.s>>, <<1, a.e12, b.e23>>,
                         <<-1, a.e23, b.e12>> >>),
   e12 |-> Polynomial(<< <<1, a.s, b.e12>>, <<1, a.e12, b.s>>, <<1, a.e23, b.e31>>,
                         <<-1, a.e31, b.e23>> >>)]

\* exp(_Rotor3), once its locals len_v and exp_w are computed
exp_Rotor3_of(r, len_v, exp_w) ==
  IF is_approx_zero(len_v)
  THEN Rotor3_sv(exp_w, Vec3_scale(exp_w, get_direction(r)))
  ELSE IF IsInf(exp_w) /\ (RCos(len_v) = I(0) \/ RSin(len_v) = I(0))
  THEN Undefined
  ELSE Rotor3_sv(exp_w (.) RCos(len_v),
                 Vec3_scale((exp_w (.) RSin(len_v)) (/) len_v, get_direction(r)))

\* exp(_Rotor3)
exp_Rotor3(r) == exp_Rotor3_of(r, length_Vec3(get_direction(r)), RExp(r.s))

\* ln(_Rotor3), once its locals len and len_v are computed
ln_Rotor3_of(r, len, len_v) ==
  IF is_approx_zero(len_v)
  THEN Rotor3_sv(RLog(len), Vec3_ZERO)
  ELSE Rotor3_sv(RLog(len), Vec3_scale(RAcos(r.s (/) len) (/) len_v, get_direction(r)))

\* ln(_Rotor3)
ln_Rotor3(r) == ln_Rotor3_of(r, length_Rotor3(r), length_Vec3(Vec3(r.e23, r.e31, r.e12)))

\* pow(_Rotor3, T)
pow_Rotor3(r, power) == exp_Rotor3(Rotor3_scale(power, ln_Rotor3(r)))

\* slerp(_Rotor3, _Rotor3, T)
slerp(a, b, t) == Rotor3_mul(a, pow_Rotor3(Rotor3_mul(reverse_Rotor3(a), b), t))

\* get_x_basis_vector(_Rotor3)
get_x_basis_vector(r) ==
  [x |-> Polynomial(<< <<1, r.e23, r.e23>>, <<-1, r.e31, r.e31>>, <<-1, r.e12, r.e12>>,
                       <<1, r.s, r.s>> >>),
   y |-> I(2) (.) Polynomial(<< <<1, r.e23, r.e31>>, <<1, r.e12, r.s>> >>),
   z |-> I(2) (.) Polynomial(<< <<1, r.e23, r.e12>>, <<-1, r.e31, r.s>> >>)]

\* get_y_basis_vector(_Rotor3)
get_y_basis_vector(r) ==
  [x |-> I(2) (.) Polynomial(<< <<1, r.e23, r.e31>>, <<-1, r.e12, r.s>> >>),
   y |-> Polynomial(<< <<-1, r.e23, r.e23>>, <<1, r.e31, r.e31>>, <<-1, r.e12, r.e12>>,
                       <<1, r.s, r.s>> >>),
   z |-> I(2) (.) Polynomial(<< <<1, r.e31, r.e12>>, <<1, r.e23, r.s>> >>)]

\* get_z_basis_vector(_Rotor3)
get_z_basis_vector(r) ==
  [x |-> I(2) (.) Polynomial(<< <<1, r.e23, r.e12>>, <<1, r.e31, r.s>> >>),
   y |-> I(2) (.) Polynomial(<< <<1, r.e31, r.e12>>, <<-1, r.e23, r.s>> >>),
   z |-> Polynomial(<< <<-1, r.e23, r.e23>>, <<-1, r.e31, r.e31>>, <<1, r.e12, r.e12>>,
                       <<1, r.s, r.s>> >>)]

\* transform(_Vec3, _Rotor3)
transform_Vec3(a, r) ==
  [x |-> Polynomial(<< <<-1, a.x, r.e23, r.e23>>, <<1, a.x, r.e31, r.e31>>,
                       <<1, a.x, r.e12, r.e12>>, <<-1, a.x, r.s, r.s>>,
                       <<-2, a.y, r.s, r.e12>>, <<-2, a.y, r.e31, r.e23>>,
                       <<-2, a.z, r.e12, r.e23>>, <<2, a.z, r.s, r.e31>> >>),
   y |-> Polynomial(<< <<1, a.y, r.e23, r.e23>>, <<-1, a.y, r.e31, r.e31>>,
                       <<1, a.y, r.e12, r.e12>>, <<-1, a.y, r.s, r.s>>,
                       <<-2, a.z, r.s, r.e23>>, <<-2, a.z, r.e31, r.e12>>,
                       <<-2, a.x, r.e31, r.e23>>, <<2, a.x, r.s, r.e12>> >>),
   z |-> Polynomial(<< <<1, a.z, r.e23, r.e23>>, <<1, a.z, r.e31, r.e31>>,
                       <<-1, a.z, r.e12, r.e12>>, <<-1, a.z, r.s, r.s>>,
                       <<-2, a.x, r.e12, r.e23>>, <<-2, a.x, r.s, r.e31>>,
                       <<2, a.y, r.s, r.e23>>, <<-2, a.y, r.e31, r.e12>> >>)]

(***************************************************************************)
(* euclidian_flat_3d.hpp: _Line3, the bivector with Pluecker coordinates   *)
(* (e23, e31, e12 : direction; e01, e02, e03 : moment)                     *)
(***************************************************************************)

Line3(e23, e31, e12, e01, e02, e03) ==
  [e23 |-> e23, e31 |-> e31, e12 |-> e12, e01 |-> e01, e02 |-> e02, e03 |-> e03]

magnitude_squared_Line3(a) ==
  Polynomial(<< <<1, a.e23, a.e23>>, <<1, a.e31, a.e31>>, <<1, a.e12, a.e12>> >>)

\* operator*(T, _Line3)
Line3_scale(a, b) ==
  Line3(a (.) b.e23, a (.) b.e31, a (.) b.e12, a (.) b.e01, a (.) b.e02, a (.) b.e03)

\* _Line3::vanishing_line(const _Vec3<T> direction)
vanishing_line(direction) ==
  Line3(I(0), I(0), I(0), direction.x, direction.y, direction.z)

\* _Plane3(T e1, T e2, T e3, T e0)
Plane3(e1, e2, e3, e0) == [e1 |-> e1, e2 |-> e2, e3 |-> e3, e0 |-> e0]

\* _Plane3::plane(const _Vec3<T> &normal, const T distance)
plane(normal, distance) == Plane3(normal.x, normal.y, normal.z, RNeg(distance))

\* A variant of meet(_Plane3, _Plane3) with the planes exchanged: meet(b, a).
meet_Plane3_exchanged(b, a) ==
  [e23 |-> Polynomial(<< <<1, a.e2, b.e3>>, <<-1, a.e3, b.e2>> >>),
   e31 |-> Polynomial(<< <<1, a.e3, b.e1>>, <<-1, a.e1, b.e3>> >>),
   e12 |-> Polynomial(<< <<1, a.e1, b.e2>>, <<-1, a.e2, b.e1>> >>),
   e01 |-> Polynomial(<< <<1, a.e0, b.e1>>, <<-1, a.e1, b.e0>> >>),
   e02 |-> Polynomial(<< <<1, a.e0, b.e2>>, <<-1, a.e2, b.e0>> >>),
   e03 |-> Polynomial(<< <<1, a.e0, b.e3>>, <<-1, a.e3, b.e0>> >>)]

\* meet(_Plane3, _Plane3)
meet_Plane3(a, b) ==
  [e23 |-> Polynomial(<< <<1, a.e2, b.e3>>, <<-1, a.e3, b.e2>> >>),
   e31 |-> Polynomial(<< <<1, a.e3, b.e1>>, <<-1, a.e1, b.e3>> >>),
   e12 |-> Polynomial(<< <<1, a.e1, b.e2>>, <<-1, a.e2, b.e1>> >>),
   e01 |-> Polynomial(<< <<1, a.e0, b.e1>>, <<-1, a.e1, b.e0>> >>),
   e02 |-> Polynomial(<< <<1, a.e0, b.e2>>, <<-1, a.e2, b.e0>> >>),
   e03 |-> Polynomial(<< <<1, a.e0, b.e3>>, <<-1, a.e3, b.e0>> >>)]

\* _Point3, by member initialisation
Point3(e032, e013, e021, e123) == [e032 |-> e032, e013 |-> e013, e021 |-> e021, e123 |-> e123]

\* _Point3::point(const _Vec3<T> &p)
point(p) == Point3(p.x, p.y, p.z, I(1))

\* join(_Point3, _Point3)
join_Point3(a, b) ==
  [e23 |-> Polynomial(<< <<1, a.e032, b.e123>>, <<-1, a.e123, b.e032>> >>),
   e31 |-> Polynomial(<< <<1, a.e013, b.e123>>, <<-1, a.e123, b.e013>> >>),
   e12 |-> Polynomial(<< <<1, a.e021, b.e123>>, <<-1, a.e123, b.e021>> >>),
   e01 |-> Polynomial(<< <<1, a.e021, b.e013>>, <<-1, a.e013, b.e021>> >>),
   e02 |-> Polynomial(<< <<1, a.e032, b.e021>>, <<-1, a.e021, b.e032>> >>),
   e03 |-> Polynomial(<< <<1, a.e013, b.e032>>, <<-1, a.e032, b.e013>> >>)]

\* The struct a flat is an instance of: _Plane3, _Line3 or _Point3.  The
\* overloads of a function are resolved on the structs of its arguments.
FlatType(a) ==
  IF "e1" \in DOMAIN a THEN "Plane3" ELSE IF "e23" \in DOMAIN a THEN "Line3" ELSE "Point3"

\* magnitude_squared(_Plane3), magnitude_squared(_Line3),
\* magnitude_squared(_Point3): the squared norm of the finite part
magnitude_squared(a) ==
  CASE FlatType(a) = "Plane3" ->
         Polynomial(<< <<1, a.e1, a.e1>>, <<1, a.e2, a.e2>>, <<1, a.e3, a.e3>> >>)
    [] FlatType(a) = "Line3" -> magnitude_squared_Line3(a)
    [] FlatType(a) = "Point3" -> a.e123 (.) a.e123

\* operator-(_Plane3), operator-(_Line3), operator-(_Point3)
Flat_neg(a) == [f \in DOMAIN a |-> RNeg(a[f])]

\* operator/(_Plane3, T), operator/(_Line3, T), operator/(_Point3, T): every
\* coefficient is divided by b
Flat_div(a, b) == [f \in DOMAIN a |-> a[f] (/) b]

\* reverse(_Plane3) returns p; reverse(_Line3) and reverse(_Point3) return -p
reverse_Flat(p) == IF FlatType(p) = "Plane3" THEN p ELSE Flat_neg(p)

\* inverse(_Plane3), inverse(_Line3), inverse(_Point3)
inverse_Flat(p) == Flat_div(reverse_Flat(p), magnitude_squared(p))

\* meet(_Plane3, _Plane3), meet(_Plane3, _Line3) and meet(_Line3, _Plane3),
\* which returns meet(plane, line)
meet(a, b) ==
  CASE FlatType(a) = "Plane3" /\ FlatType(b) = "Plane3" ->
         meet_Plane3(a, b)
    [] FlatType(a) = "Plane3" /\ FlatType(b) = "Line3" ->
         [e032 |-> Polynomial(<< <<1, a.e2, b.e03>>, <<-1, a.e3, b.e02>>,
                                 <<-1, a.e0, b.e23>> >>),
          e013 |-> Polynomial(<< <<1, a.e3, b.e01>>, <<-1, a.e1, b.e03>>,
                                 <<-1, a.e0, b.e31>> >>),
          e021 |-> Polynomial(<< <<1, a.e1, b.e02>>, <<-1, a.e2, b.e01>>,
                                 <<-1, a.e0, b.e12>> >>),
          e123 |-> Polynomial(<< <<1, a.e1, b.e23>>, <<1, a.e2, b.e31>>, <<1, a.e3, b.e12>> >>)]
    [] FlatType(a) = "Line3" /\ FlatType(b) = "Plane3" ->
         [e032 |-> Polynomial(<< <<1, b.e2, a.e03>>, <<-1, b.e3, a.e02>>,
                                 <<-1, b.e0, a.e23>> >>),
          e013 |-> Polynomial(<< <<1, b.e3, a.e01>>, <<-1, b.e1, a.e03>>,
                                 <<-1, b.e0, a.e31>> >>),
          e021 |-> Polynomial(<< <<1, b.e1, a.e02>>, <<-1, b.e2, a.e01>>,
                                 <<-1, b.e0, a.e12>> >>),
          e123 |-> Polynomial(<< <<1, b.e1, a.e23>>, <<1, b.e2, a.e31>>, <<1, b.e3, a.e12>> >>)]

\* inner(_Plane3, _Line3) and inner(_Line3, _Plane3), which returns
\* -inner(plane, line); inner(_Line3, _Point3) and inner(_Point3, _Line3),
\* which returns inner(line, point); inner(_Plane3, _Point3) and
\* inner(_Point3, _Plane3), which returns inner(plane, point)
inner(a, b) ==
  CASE FlatType(a) = "Plane3" /\ FlatType(b) = "Line3" ->
         [e1 |-> Polynomial(<< <<1, a.e3, b.e31>>, <<-1, a.e2, b.e12>> >>),
          e2 |-> Polynomial(<< <<1, a.e1, b.e12>>, <<-1, a.e3, b.e23>> >>),
          e3 |-> Polynomial(<< <<1, a.e2, b.e23>>, <<-1, a.e1, b.e31>> >>),
          e0 |-> RNeg(Polynomial(<< <<1, a.e1, b.e01>>, <<1, a.e2, b.e02>>,
                                    <<1, a.e3, b.e03>> >>))]
    [] FlatType(a) = "Line3" /\ FlatType(b) = "Plane3" ->
         Flat_neg(
           [e1 |-> Polynomial(<< <<1, b.e3, a.e31>>, <<-1, b.e2, a.e12>> >>),
            e2 |-> Polynomial(<< <<1, b.e1, a.e12>>, <<-1, b.e3, a.e23>> >>),
            e3 |-> Polynomial(<< <<1, b.e2, a.e23>>, <<-1, b.e1, a.e31>> >>),
            e0 |-> RNeg(Polynomial(<< <<1, b.e1, a.e01>>, <<1, b.e2, a.e02>>,
                                      <<1, b.e3, a.e03>> >>))])
    [] FlatType(a) = "Line3" /\ FlatType(b) = "Point3" ->
         [e1 |-> Polynomial(<< <<-1, a.e23, b.e123>> >>),
          e2 |-> Polynomial(<< <<-1, a.e31, b.e123>> >>),
          e3 |-> Polynomial(<< <<-1, a.e12, b.e123>> >>),
          e0 |-> Polynomial(<< <<1, a.e23, b.e032>>, <<1, a.e31, b.e013>>,
                               <<1, a.e12, b.e021>> >>)]
    [] FlatType(a) = "Point3" /\ FlatType(b) = "Line3" ->
         [e1 |-> Polynomial(<< <<-1, b.e23, a.e123>> >>),
          e2 |-> Polynomial(<< <<-1, b.e31, a.e123>> >>),
          e3 |-> Polynomial(<< <<-1, b.e12, a.e123>> >>),
          e0 |-> Polynomial(<< <<1, b.e23, a.e032>>, <<1, b.e31, a.e013>>,
                               <<1, b.e12, a.e021>> >>)]
    [] FlatType(a) = "Plane3" /\ FlatType(b) = "Point3" ->
         [e23 |-> Polynomial(<< <<1, a.e1, b.e123>> >>),
          e31 |-> Polynomial(<< <<1, a.e2, b.e123>> >>),
          e12 |-> Polynomial(<< <<1, a.e3, b.e123>> >>),
          e01 |-> Polynomial(<< <<1, a.e3, b.e013>>, <<-1, a.e2, b.e021>> >>),
          e02 |-> Polynomial(<< <<1, a.e1, b.e021>>, <<-1, a.e3, b.e032>> >>),
          e03 |-> Polynomial(<< <<1, a.e2, b.e032>>, <<-1, a.e1, b.e013>> >>)]
    [] FlatType(a) = "Point3" /\ FlatType(b) = "Plane3" ->
         [e23 |-> Polynomial(<< <<1, b.e1, a.e123>> >>),
          e31 |-> Polynomial(<< <<1, b.e2, a.e123>> >>),
          e12 |-> Polynomial(<< <<1, b.e3, a.e123>> >>),
          e01 |-> Polynomial(<< <<1, b.e3, a.e013>>, <<-1, b.e2, a.e021>> >>),
          e02 |-> Polynomial(<< <<1, b.e1, a.e021>>, <<-1, b.e3, a.e032>> >>),
          e03 |-> Polynomial(<< <<1, b.e2, a.e032>>, <<-1, b.e1, a.e013>> >>)]

\* fast_project(_Plane3, _Point3), (_Line3, _Point3), (_Point3, _Plane3),
\* (_Point3, _Line3)
\* A variant of the three-plane meet that takes the first plane through the origin.
meet3_of_normals(a, b, c) == meet(meet(Plane3(a.e1, a.e2, a.e3, I(0)), b), c)

\* meet(_Plane3, _Plane3, _Plane3)
meet3(a, b, c) == meet(meet(a, b), c)

fast_project(a, b) ==
  IF FlatType(a) = "Point3" THEN meet(inner(a, b), b) ELSE inner(inner(a, b), b)

\* project(_Plane3, _Point3), (_Line3, _Point3), (_Point3, _Plane3),
\* (_Point3, _Line3)
project(a, b) ==
  IF FlatType(a) = "Point3" THEN meet(inner(a, b), inverse_Flat(b))
  ELSE inner(inner(a, b), inverse_Flat(b))

\* fast_reject(_Plane3, _Point3)
fast_reject(a, b) == inner(inner(a, b), a)

\* reject(_Plane3, _Point3)
reject(a, b) == inner(inner(a, b), inverse_Flat(a))


\* fast_reflect(a, b) for a and b any of _Point3, _Line3, _Plane3
fast_reflect(a, b) ==
  CASE FlatType(a) = "Point3" /\ FlatType(b) = "Plane3" ->
         [e032 |-> Polynomial(<< <<1, b.e1, b.e1, a.e032>>, <<2, a.e013, b.e2, b.e1>>,
                                 <<2, a.e021, b.e1, b.e3>>,
                                 <<2, a.e123, b.e0, b.e1>>,
                                 <<-1, a.e032, b.e2, b.e2>>,
                                 <<-1, a.e032, b.e3, b.e3>> >>),
          e013 |-> Polynomial(<< <<1, a.e013, b.e2, b.e2>>, <<2, a.e032, b.e2, b.e1>>,
                                 <<2, a.e021, b.e3, b.e2>>,
                                 <<2, a.e123, b.e2, b.e0>>,
                                 <<-1, a.e013, b.e3, b.e3>>,
                                 <<-1, a.e013, b.e1, b.e1>> >>),
          e021 |-> Polynomial(<< <<1, a.e021, b.e3, b.e3>>, <<2, a.e032, b.e1, b.e3>>,
                                 <<2, a.e013, b.e2, b.e3>>,
                                 <<2, a.e123, b.e3, b.e0>>,
                                 <<-1, a.e021, b.e1, b.e1>>,
                                 <<-1, a.e021, b.e2, b.e2>> >>),
          e123 |-> RNeg(a.e123) (.) Polynomial(<< <<1, b.e1, b.e1>>, <<1, b.e2, b.e2>>,
                                                  <<1, b.e3, b.e3>> >>)]
    [] FlatType(a) = "Point3" /\ FlatType(b) = "Line3" ->
         [e032 |-> Polynomial(<< <<-1, a.e032, b.e31, b.e31>>, <<-1, a.e032, b.e12, b.e12>>,
                                 <<1, a.e032, b.e23, b.e23>>,
                                 <<2, a.e013, b.e23, b.e31>>,
                                 <<2, a.e021, b.e23, b.e12>>,
                                 <<-2, a.e123, b.e02, b.e12>>,
                                 <<2, a.e123, b.e03, b.e31>> >>),
          e013 |-> Polynomial(<< <<-1, a.e013, b.e23, b.e23>>, <<-1, a.e013, b.e12, b.e12>>,
                                 <<1, a.e013, b.e31, b.e31>>,
                                 <<2, a.e032, b.e23, b.e31>>,
                                 <<2, a.e021, b.e12, b.e31>>,
                                 <<2, a.e123, b.e12, b.e01>>,
                                 <<-2, a.e123, b.e23, b.e03>> >>),
          e021 |-> Polynomial(<< <<-1, a.e021, b.e23, b.e23>>, <<-1, a.e021, b.e31, b.e31>>,
                                 <<1, a.e021, b.e12, b.e12>>,
                                 <<2, a.e032, b.e12, b.e23>>,
                                 <<2, a.e013, b.e12, b.e31>>,
                                 <<-2, a.e123, b.e31, b.e01>>,
                                 <<2, a.e123, b.e23, b.e02>> >>),
          e123 |-> a.e123 (.) Polynomial(<< <<1, b.e23, b.e23>>, <<-1, b.e31, b.e31>>,
                                            <<-1, b.e12, b.e12>> >>)]
    [] FlatType(a) = "Point3" /\ FlatType(b) = "Point3" ->
         [e032 |-> Polynomial(<< <<1, a.e032, b.e123, b.e123>>,
                                 <<-2, a.e123, b.e123, b.e032>> >>),
          e013 |-> Polynomial(<< <<1, a.e013, b.e123, b.e123>>,
                                 <<-2, a.e123, b.e123, b.e013>> >>),
          e021 |-> Polynomial(<< <<1, a.e021, b.e123, b.e123>>,
                                 <<-2, a.e123, b.e123, b.e021>> >>),
          e123 |-> Polynomial(<< <<-1, a.e123, b.e123, b.e123>> >>)]
    [] FlatType(a) = "Line3" /\ FlatType(b) = "Plane3" ->
         [e23 |-> Polynomial(<< <<-1, a.e23, b.e2, b.e2>>, <<-1, a.e23, b.e3, b.e3>>,
                                <<1, a.e23, b.e1, b.e1>>,
                                <<2, a.e12, b.e3, b.e1>>,
                                <<2, a.e31, b.e2, b.e1>> >>),
          e31 |-> Polynomial(<< <<-1, a.e31, b.e3, b.e3>>, <<-1, a.e31, b.e1, b.e1>>,
                                <<1, a.e31, b.e2, b.e2>>,
                                <<2, a.e12, b.e2, b.e3>>,
                                <<2, a.e23, b.e2, b.e1>> >>),
          e12 |-> Polynomial(<< <<-1, a.e12, b.e1, b.e1>>, <<-1, a.e12, b.e2, b.e2>>,
                                <<1, a.e12, b.e3, b.e3>>,
                                <<2, a.e31, b.e2, b.e3>>,
                                <<2, a.e23, b.e3, b.e1>> >>),
          e01 |-> Polynomial(<< <<-1, a.e01, b.e1, b.e1>>, <<-2, a.e31, b.e3, b.e0>>,
                                <<-2, a.e02, b.e2, b.e1>>,
                                <<-2, a.e03, b.e3, b.e1>>,
                                <<1, a.e01, b.e2, b.e2>>,
                                <<1, a.e01, b.e3, b.e3>>,
                                <<2, a.e12, b.e2, b.e0>> >>),
          e02 |-> Polynomial(<< <<-1, a.e02, b.e2, b.e2>>, <<-2, a.e12, b.e0, b.e1>>,
                                <<-2, a.e01, b.e2, b.e1>>,
                                <<-2, a.e03, b.e2, b.e3>>,
                                <<1, a.e02, b.e3, b.e3>>,
                                <<1, a.e02, b.e1, b.e1>>,
                                <<2, a.e23, b.e3, b.e0>> >>),
          e03 |-> Polynomial(<< <<-1, a.e03, b.e3, b.e3>>, <<-2, a.e23, b.e2, b.e0>>,
                                <<-2, a.e01, b.e3, b.e1>>,
                                <<-2, a.e02, b.e2, b.e3>>,
                                <<1, a.e03, b.e1, b.e1>>,
                                <<1, a.e03, b.e2, b.e2>>,
                                <<2, a.e31, b.e0, b.e1>> >>)]
    [] FlatType(a) = "Line3" /\ FlatType(b) = "Line3" ->
         [e23 |-> Polynomial(<< <<-1, a.e23, b.e31, b.e31>>, <<-1, a.e23, b.e12, b.e12>>,
                                <<1, a.e23, b.e23, b.e23>>,
                                <<2, a.e12, b.e12, b.e23>>,
                                <<2, a.e31, b.e31, b.e23>> >>),
          e31 |-> Polynomial(<< <<-1, a.e31, b.e23, b.e23>>, <<-1, a.e31, b.e12, b.e12>>,
                                <<1, a.e31, b.e31, b.e31>>,
                                <<2, a.e23, b.e31, b.e23>>,
                                <<2, a.e12, b.e31, b.e12>> >>),
          e12 |-> Polynomial(<< <<-1, a.e12, b.e23, b.e23>>, <<-1, a.e12, b.e31, b.e31>>,
                                <<1, a.e12, b.e12, b.e12>>,
                                <<2, a.e31, b.e31, b.e12>>,
                                <<2, a.e23, b.e12, b.e23>> >>),
          e01 |-> Polynomial(<< <<-1, b.e31, b.e31, a.e01>>, <<-1, b.e12, b.e12, a.e01>>,
                                <<1, a.e01, b.e23, b.e23>>,
                                <<2, a.e23, b.e01, b.e23>>,
                                <<2, a.e31, b.e01, b.e31>>,
                                <<2, a.e12, b.e01, b.e12>>,
                                <<2, a.e31, b.e02, b.e23>>,
                                <<-2, a.e23, b.e02, b.e31>>,
                                <<2, a.e12, b.e03, b.e23>>,
                                <<-2, a.e23, b.e03, b.e12>>,
                                <<2, a.e02, b.e31, b.e23>>,
                                <<2, a.e03, b.e12, b.e23>> >>),
          e02 |-> Polynomial(<< <<-1, a.e02, b.e23, b.e23>>, <<-1, a.e02, b.e12, b.e12>>,
                                <<1, a.e02, b.e31, b.e31>>,
                                <<2, a.e23, b.e01, b.e31>>,
                                <<-2, a.e31, b.e01, b.e23>>,
                                <<2, a.e31, b.e02, b.e31>>,
                                <<2, a.e12, b.e02, b.e12>>,
                                <<2, a.e23, b.e02, b.e23>>,
                                <<-2, a.e31, b.e03, b.e12>>,
                                <<2, a.e12, b.e03, b.e31>>,
                                <<2, a.e01, b.e31, b.e23>>,
                                <<2, a.e03, b.e31, b.e12>> >>),
          e03 |-> Polynomial(<< <<-1, a.e03, b.e23, b.e23>>, <<-1, a.e03, b.e31, b.e31>>,
                                <<1, a.e03, b.e12, b.e12>>,
                                <<-2, a.e12, b.e01, b.e23>>,
                                <<2, a.e23, b.e01, b.e12>>,
                                <<-2, a.e12, b.e02, b.e31>>,
                                <<2, a.e31, b.e02, b.e12>>,
                                <<2, a.e23, b.e03, b.e23>>,
                                <<2, a.e31, b.e03, b.e31>>,
                                <<2, a.e12, b.e03, b.e12>>,
                                <<2, a.e01, b.e12, b.e23>>,
                                <<2, a.e02, b.e31, b.e12>> >>)]
    [] FlatType(a) = "Line3" /\ FlatType(b) = "Point3" ->
         [e23 |-> Polynomial(<< <<1, a.e23, b.e123, b.e123>> >>),
          e31 |-> Polynomial(<< <<1, a.e31, b.e123, b.e123>> >>),
          e12 |-> Polynomial(<< <<1, a.e12, b.e123, b.e123>> >>),
          e01 |-> Polynomial(<< <<-1, a.e01, b.e123, b.e123>>, <<-2, a.e31, b.e021, b.e123>>,
                                <<2, a.e12, b.e123, b.e013>> >>),
          e02 |-> Polynomial(<< <<-1, a.e02, b.e123, b.e123>>, <<-2, a.e12, b.e123, b.e032>>,
                                <<2, a.e23, b.e021, b.e123>> >>),
          e03 |-> Polynomial(<< <<-1, a.e03, b.e123, b.e123>>, <<-2, a.e23, b.e123, b.e013>>,
                                <<2, a.e31, b.e123, b.e032>> >>)]
    [] FlatType(a) = "Plane3" /\ FlatType(b) = "Plane3" ->
         [e1 |-> Polynomial(<< <<1, a.e1, b.e2, b.e2>>, <<1, a.e1, b.e3, b.e3>>,
                               <<-1, a.e1, b.e1, b.e1>>,
                               <<-2, a.e3, b.e1, b.e3>>,
                               <<-2, a.e2, b.e1, b.e2>> >>),
          e2 |-> Polynomial(<< <<1, a.e2, b.e1, b.e1>>, <<1, a.e2, b.e3, b.e3>>,
                               <<-1, a.e2, b.e2, b.e2>>,
                               <<-2, a.e3, b.e2, b.e3>>,
                               <<-2, a.e1, b.e1, b.e2>> >>),
          e3 |-> Polynomial(<< <<1, a.e3, b.e2, b.e2>>, <<1, a.e3, b.e1, b.e1>>,
                               <<-1, a.e3, b.e3, b.e3>>,
                               <<-2, a.e2, b.e2, b.e3>>,
                               <<-2, a.e1, b.e1, b.e3>> >>),
          e0 |-> Polynomial(<< <<1, a.e0, b.e1, b.e1>>, <<1, a.e0, b.e2, b.e2>>,
                               <<1, a.e0, b.e3, b.e3>>,
                               <<-2, a.e2, b.e2, b.e0>>,
                               <<-2, a.e3, b.e3, b.e0>>,
                               <<-2, a.e1, b.e1, b.e0>> >>)]
    [] FlatType(a) = "Plane3" /\ FlatType(b) = "Line3" ->
         [e1 |-> Polynomial(<< <<1, a.e1, b.e31, b.e31>>, <<-1, a.e1, b.e12, b.e12>>,
                               <<1, a.e1, b.e23, b.e23>>,
                               <<2, a.e2, b.e23, b.e31>>,
                               <<2, a.e3, b.e23, b.e12>> >>),
          e2 |-> Polynomial(<< <<1, a.e2, b.e23, b.e23>>, <<-1, a.e2, b.e12, b.e12>>,
                               <<1, a.e2, b.e31, b.e31>>,
                               <<2, a.e3, b.e31, b.e12>>,
                               <<2, a.e1, b.e23, b.e31>> >>),
          e3 |-> Polynomial(<< <<1, a.e3, b.e31, b.e31>>, <<-1, a.e3, b.e23, b.e23>>,
                               <<1, a.e3, b.e12, b.e12>>,
                               <<2, a.e1, b.e23, b.e12>>,
                               <<2, a.e2, b.e31, b.e12>> >>),
          e0 |-> Polynomial(<< <<2, a.e2, b.e23, b.e03>>, <<-2, a.e1, b.e12, b.e02>>,
                               <<-2, a.e3, b.e31, b.e01>>,
                               <<1, a.e0, b.e23, b.e23>>,
                               <<1, a.e0, b.e31, b.e31>>,
                               <<1, a.e0, b.e12, b.e12>>,
                               <<2, a.e3, b.e23, b.e02>>,
                               <<2, a.e1, b.e31, b.e03>>,
                               <<2, a.e2, b.e12, b.e01>> >>)]
    [] FlatType(a) = "Plane3" /\ FlatType(b) = "Point3" ->
         [e1 |-> Polynomial(<< <<-1, a.e1, b.e123, b.e123>> >>),
          e2 |-> Polynomial(<< <<-1, a.e2, b.e123, b.e123>> >>),
          e3 |-> Polynomial(<< <<-1, a.e3, b.e123, b.e123>> >>),
          e0 |-> Polynomial(<< <<1, a.e0, b.e123, b.e123>>, <<2, a.e1, b.e123, b.e032>>,
                               <<2, a.e2, b.e123, b.e013>>,
                               <<2, a.e3, b.e123, b.e021>> >>)]

\* reflect(const A &a, const B &b)
reflect(a, b) == Flat_div(fast_reflect(a, b), magnitude_squared(b))

\* The types T the flats are instantiated with.
FloatTypes == {"float", "double"}

\* Whether the two floats that lie over the double d have a sum of squares
\* below KMATH_EPSILON2.  They are 0 for d = 0; for a double of magnitude
\* from 2^-135 on (every non-zero scalar of the model) the high word reads as
\* a float of magnitude at least 2^-16, above KMATH_EPSILON, or as an
\* infinity or a NaN.
WordsApproxZero(d) == d = I(0)

\* Reading an object through a reference to a type it does not have
\* (reinterpret_cast) is undefined behaviour.  The read returns the
\* coefficients the program stored, or, where the compiler has dropped or
\* postponed the stores that no read of the object's own type follows, what
\* the memory held before.  That is zero in the fresh frame of a call (what
\* g++ -O2 -fwhole-program returns), and otherwise any value of T: STALE.
StaleValues == {STALE, I(0)}

\* The read that returns what the program stored.
Stored == [stale |-> FALSE, value |-> I(0)]

\* The outcomes of one read through such a reference.
AliasedReads == {Stored} \cup {[stale |-> TRUE, value |-> v] : v \in StaleValues}

\* The record a read with outcome read returns for the object a.
AliasedRead(a, read) == IF read.stale THEN [k \in DOMAIN a |-> read.value] ELSE a

\* The outcomes of the reads of the two halves of a motor in one call.
MotorReads == [real : AliasedReads, dual : AliasedReads]

\* Both halves of a motor read as stored.
StoredMotor == [real |-> Stored, dual |-> Stored]

\* is_approx_zero(_Plane3<T>), is_approx_zero(_Line3<T>),
\* is_approx_zero(_Point3<T>), once the object is read: it is read as one Vec4 or as two
\* Vec3 of floats, and a vector is approximately zero when its
\* length_squared is below KMATH_EPSILON2.  For T = float the floats are
\* the coefficients.  For T = double the 16 bytes of the Vec4 lie over the
\* first two coefficients, and the 24 bytes of the two Vec3 over the first
\* three.
is_approx_zero_Words(a, T) ==
  CASE T = "float" /\ FlatType(a) = "Plane3" ->
         BelowEpsilon2(Polynomial(<< <<1, a.e1, a.e1>>, <<1, a.e2, a.e2>>, <<1, a.e3, a.e3>>,
                                     <<1, a.e0, a.e0>> >>))
    [] T = "float" /\ FlatType(a) = "Line3" ->
         /\ BelowEpsilon2(length_squared_Vec3(Vec3(a.e23, a.e31, a.e12)))
         /\ BelowEpsilon2(length_squared_Vec3(Vec3(a.e01, a.e02, a.e03)))
    [] T = "float" /\ FlatType(a) = "Point3" ->
         BelowEpsilon2(Polynomial(<< <<1, a.e032, a.e032>>, <<1, a.e013, a.e013>>,
                                     <<1, a.e021, a.e021>>, <<1, a.e123, a.e123>> >>))
    [] T = "double" /\ FlatType(a) = "Plane3" ->
         WordsApproxZero(a.e1) /\ WordsApproxZero(a.e2)
    [] T = "double" /\ FlatType(a) = "Line3" ->
         WordsApproxZero(a.e23) /\ WordsApproxZero(a.e31) /\ WordsApproxZero(a.e12)
    [] T = "double" /\ FlatType(a) = "Point3" ->
         WordsApproxZero(a.e032) /\ WordsApproxZero(a.e013)

\* is_approx_zero(_Plane3<T>), is_approx_zero(_Line3<T>) and
\* is_approx_zero(_Point3<T>): the argument is read through a reference to
\* Vec4 or Vec3 (reinterpret_cast), and read is what that read yields.
is_approx_zero_Flat(a, T, read) == is_approx_zero_Words(AliasedRead(a, read), T)

\* is_on(_Point3<T>, _Plane3<T>)
is_on(X, p, T, read) == is_approx_zero_Flat(inner(p, X), T, read)

\* magnitude(_Plane3), magnitude(_Line3), magnitude(_Point3)
magnitude(a) ==
  IF FlatType(a) = "Point3" THEN RAbs(a.e123) ELSE RSqrt(magnitude_squared(a))

\* vanishing_magnitude(_Plane3), vanishing_magnitude(_Line3) and
\* vanishing_magnitude(_Point3), with their vanishing_magnitude_squared
vanishing_magnitude(a) ==
  CASE FlatType(a) = "Plane3" -> RAbs(a.e0)
    [] FlatType(a) = "Line3" ->
         RSqrt(Polynomial(<< <<1, a.e01, a.e01>>, <<1, a.e02, a.e02>>, <<1, a.e03, a.e03>> >>))
    [] FlatType(a) = "Point3" ->
         RSqrt(Polynomial(<< <<1, a.e032, a.e032>>, <<1, a.e013, a.e013>>,
                             <<1, a.e021, a.e021>> >>))

\* A variant of is_vanishing that tests magnitude_squared against the linear
\* epsilon KMATH_EPSILON.
is_vanishing_linear(a) == is_approx_zero(magnitude_squared(a))

\* is_vanishing(_Plane3), is_vanishing(_Line3), is_vanishing(_Point3)
is_vanishing(a) ==
  IF FlatType(a) = "Point3" THEN is_approx_zero(a.e123)
  ELSE is_square_approx_zero(magnitude_squared(a))

\* normalized(_Plane3), normalized(_Line3), normalized(_Point3)
normalized(a) ==
  CASE FlatType(a) = "Plane3" ->
         IF ~is_vanishing(a) THEN Flat_div(a, magnitude(a))
         ELSE Plane3(I(0), I(0), I(0), I(-1))
    [] FlatType(a) = "Line3" ->
         IF ~is_vanishing(a) THEN Flat_div(a, magnitude(a))
         ELSE Flat_div(a, vanishing_magnitude(a))
    [] FlatType(a) = "Point3" ->
         IF ~is_vanishing(a) THEN Flat_div(a, a.e123)
         ELSE Flat_div(a, vanishing_magnitude(a))

(***************************************************************************)
(* motor_3d.hpp: _Motor3, real part (s, e23, e31, e12) and dual part       *)
(* (e0123, e01, e02, e03)                                                  *)
(***************************************************************************)

Motor3(s, e23, e31, e12, e0123, e01, e02, e03) ==
  [s |-> s, e23 |-> e23, e31 |-> e31, e12 |-> e12,
   e0123 |-> e0123, e01 |-> e01, e02 |-> e02, e03 |-> e03]

\* _Motor3(const _Rotor3<T> &real, const _Rotor3<T> &dual)
Motor3_rd(real, dual) ==
  Motor3(real.s, real.e23, real.e31, real.e12, dual.s, dual.e23, dual.e31, dual.e12)


\* _Motor3::from_translation
from_translation(translation) ==
  Motor3_rd(Rotor3_IDENTITY, Rotor3_sv(I(0), Vec3_scale(RNeg(Q(1, 2)), translation)))

\* _Motor3::from_rotor
from_rotor(rotation) == Motor3_rd(rotation, Rotor3_ZERO)

\* A variant of _Motor3::from_rotor_translation that stores trans * rotation
\* without reversing it.
from_rotor_translation_unreversed(rotation, translation) ==
  Motor3_rd(rotation,
            Rotor3_mul(Rotor3_sv(I(0), Vec3_scale(Q(1, 2), translation)), rotation))

\* _Motor3::from_rotor_translation; its local trans is the rotor (0, translation / 2)
from_rotor_translation(rotation, translation) ==
  Motor3_rd(rotation,
            reverse_Rotor3(Rotor3_mul(Rotor3_sv(I(0), Vec3_scale(Q(1, 2), translation)),
                                      rotation)))

\* _Motor3::from_axis_angle_translation, once its locals rot and trans are computed
from_axis_angle_translation_of(rot, trans) ==
  Motor3_rd(rot, reverse_Rotor3(Rotor3_mul(trans, rot)))

\* _Motor3::from_axis_angle_translation
from_axis_angle_translation(axis, angle, translation) ==
  IF HalfAngleResidueTimesInfinity(axis, angle, translation)
  THEN Undefined
  ELSE from_axis_angle_translation_of(Rotor3_from_axis_angle(axis, angle),
                                      Rotor3_sv(I(0), Vec3_scale(Q(1, 2), translation)))

\* _Motor3::from_screw_coordinates, the branch of a rotation, once its locals
\* cos_a and sin_a are computed
from_screw_rotation(direction, moment, translation, cos_a, sin_a) ==
  Motor3_rd(Rotor3_sv(cos_a, Vec3_scale(sin_a, direction)),
            Rotor3_sv(Factors(<<RNeg(Q(1, 2)), translation, sin_a>>),
                      Vec3_add(Vec3_scale(sin_a, moment),
                               Vec3_scale(Factors(<<Q(1, 2), translation, cos_a>>), direction))))

\* Whether the branch of a rotation multiplies an infinity with a cosine or
\* sine that is exactly 0.  In T the sine of a non-zero multiple of pi and the
\* cosine of an odd multiple of pi/2 are not 0 but the rounding residue of
\* the angle (1.2e-16 for the sine at pi with T = double, -8.7e-8 with
\* T = float), and the product is an infinity with the sign of the residue,
\* which depends on T: the product has no value in the model.  sin_a
\* multiplies direction, moment and translation; cos_a multiplies translation
\* and, unless translation is 0 or NAN, direction.
ResidueTimesInfinity(direction, moment, translation, cos_a, sin_a) ==
  \/ sin_a = I(0)
       /\ (HasInfinite(direction) \/ HasInfinite(moment) \/ IsInf(translation))
  \/ cos_a = I(0)
       /\ (IsInf(translation)
             \/ (translation # I(0) /\ ~IsNaN(translation) /\ HasInfinite(direction)))

\* _Motor3::from_screw_coordinates, once cos_a and sin_a are computed
from_screw_residues(direction, moment, translation, cos_a, sin_a) ==
  IF ResidueTimesInfinity(direction, moment, translation, cos_a, sin_a)
  THEN Undefined
  ELSE from_screw_rotation(direction, moment, translation, cos_a, sin_a)

\* _Motor3::from_screw_coordinates
from_screw_coordinates(direction, moment, angle, translation) ==
  IF ~is_approx_zero(angle)
  THEN from_screw_residues(direction, moment, translation,
                           RCos(angle (/) I(2)), RSin(angle (/) I(2)))
  ELSE from_translation(Vec3_scale(translation, direction))

\* get_real_part returns *reinterpret_cast<const _Rotor3<T>*>(&m): the first
\* four coefficients of the motor, read through a reference to a type the
\* motor is not.  read.real is what that read yields.
get_real_part(m, read) == AliasedRead(Rotor3(m.s, m.e23, m.e31, m.e12), read.real)

\* get_dual_part returns *(1 + reinterpret_cast<const _Rotor3<T>*>(&m)): the
\* last four coefficients, read the same way.  read.dual is what that read
\* yields.
get_dual_part(m, read) == AliasedRead(Rotor3(m.e0123, m.e01, m.e02, m.e03), read.dual)

get_rotor(m, read) == get_real_part(m, read)

\* get_translation, once its local translation (a rotor) is computed
get_translation_of(translation) == Vec3(translation.e23, translation.e31, translation.e12)

\* A variant of get_translation that multiplies by the dual part itself and not
\* by its reverse.
get_translation_unreversed(m, read) ==
  get_translation_of(Rotor3_mul(Rotor3_scale(I(2), get_dual_part(m, read)),
                                reverse_Rotor3(get_real_part(m, read))))

get_translation(m, read) ==
  get_translation_of(Rotor3_mul(Rotor3_scale(I(2), reverse_Rotor3(get_dual_part(m, read))),
                                reverse_Rotor3(get_real_part(m, read))))

reverse_Motor3(m) ==
  Motor3(m.s, RNeg(m.e23), RNeg(m.e31), RNeg(m.e12),
         m.e0123, RNeg(m.e01), RNeg(m.e02), RNeg(m.e03))

\* operator*(T, _Motor3)
Motor3_scale(a, b) ==
  Motor3(b.s (.) a, b.e23 (.) a, b.e31 (.) a, b.e12 (.) a,
         b.e0123 (.) a, b.e01 (.) a, b.e02 (.) a, b.e03 (.) a)

\* operator/(_Motor3, T)
Motor3_div(a, b) ==
  Motor3(a.s (/) b, a.e23 (/) b, a.e31 (/) b, a.e12 (/) b,
         a.e0123 (/) b, a.e01 (/) b, a.e02 (/) b, a.e03 (/) b)

\* A variant of operator*(_Motor3, _Motor3) with the factors exchanged: b * a.
Motor3_mul_exchanged(a, b) ==
  [s |-> Polynomial(<< <<1, a.s, b.s>>, <<-1, a.e23, b.e23>>, <<-1, b.e31, a.e31>>,
                       <<-1, a.e12, b.e12>> >>),
   e23 |-> Polynomial(<< <<1, b.s, a.e23>>, <<1, a.s, b.e23>>, <<-1, b.e31, a.e12>>,
                         <<1, a.e31, b.e12>> >>),
   e31 |-> Polynomial(<< <<1, b.s, a.e31>>, <<1, a.s, b.e31>>, <<1, b.e23, a.e12>>,
                         <<-1, a.e23, b.e12>> >>),
   e12 |-> Polynomial(<< <<1, b.s, a.e12>>, <<1, a.s, b.e12>>, <<-1, b.e23, a.e31>>,
                         <<1, a.e23, b.e31>> >>),
   e0123 |-> Polynomial(<< <<1, b.e01, a.e23>>, <<1, b.e02, a.e31>>, <<1, b.e03, a.e12>>,
                           <<1, a.e01, b.e23>>, <<1, a.e02, b.e31>>,
                           <<1, a.e03, b.e12>>, <<1, b.s, a.e0123>>,
                           <<1, a.s, b.e0123>> >>),
   e01 |-> Polynomial(<< <<1, b.s, a.e01>>, <<1, a.s, b.e01>>, <<1, b.e03, a.e31>>,
                         <<-1, b.e02, a.e12>>, <<1, a.e02, b.e12>>,
                         <<-1, a.e03, b.e31>>, <<-1, b.e23, a.e0123>>,
                         <<-1, a.e23, b.e0123>> >>),
   e02 |-> Polynomial(<< <<1, b.s, a.e02>>, <<1, a.s, b.e02>>, <<1, b.e01, a.e12>>,
                         <<-1, b.e03, a.e23>>, <<-1, a.e01, b.e12>>,
                         <<1, a.e03, b.e23>>, <<-1, b.e31, a.e0123>>,
                         <<-1, a.e31, b.e0123>> >>),
   e03 |-> Polynomial(<< <<1, b.s, a.e03>>, <<1, a.s, b.e03>>, <<-1, b.e01, a.e31>>,
                         <<1, b.e02, a.e23>>, <<1, a.e01, b.e31>>,
                         <<-1, a.e02, b.e23>>, <<-1, b.e12, a.e0123>>,
                         <<-1, a.e12, b.e0123>> >>)]

\* operator*(_Motor3, _Motor3)
Motor3_mul(a, b) ==
  [s |-> Polynomial(<< <<1, b.s, a.s>>, <<-1, b.e23, a.e23>>, <<-1, a.e31, b.e31>>,
                       <<-1, b.e12, a.e12>> >>),
   e23 |-> Polynomial(<< <<1, a.s, b.e23>>, <<1, b.s, a.e23>>, <<-1, a.e31, b.e12>>,
                         <<1, b.e31, a.e12>> >>),
   e31 |-> Polynomial(<< <<1, a.s, b.e31>>, <<1, b.s, a.e31>>, <<1, a.e23, b.e12>>,
                         <<-1, b.e23, a.e12>> >>),
   e12 |-> Polynomial(<< <<1, a.s, b.e12>>, <<1, b.s, a.e12>>, <<-1, a.e23, b.e31>>,
                         <<1, b.e23, a.e31>> >>),
   e0123 |-> Polynomial(<< <<1, a.e01, b.e23>>, <<1, a.e02, b.e31>>, <<1, a.e03, b.e12>>,
                           <<1, b.e01, a.e23>>, <<1, b.e02, a.e31>>,
                           <<1, b.e03, a.e12>>, <<1, a.s, b.e0123>>,
                           <<1, b.s, a.e0123>> >>),
   e01 |-> Polynomial(<< <<1, a.s, b.e01>>, <<1, b.s, a.e01>>, <<1, a.e03, b.e31>>,
                         <<-1, a.e02, b.e12>>, <<1, b.e02, a.e12>>,
                         <<-1, b.e03, a.e31>>, <<-1, a.e23, b.e0123>>,
                         <<-1, b.e23, a.e0123>> >>),
   e02 |-> Polynomial(<< <<1, a.s, b.e02>>, <<1, b.s, a.e02>>, <<1, a.e01, b.e12>>,
                         <<-1, a.e03, b.e23>>, <<-1, b.e01, a.e12>>,
                         <<1, b.e03, a.e23>>, <<-1, a.e31, b.e0123>>,
                         <<-1, b.e31, a.e0123>> >>),
   e03 |-> Polynomial(<< <<1, a.s, b.e03>>, <<1, b.s, a.e03>>, <<-1, a.e01, b.e31>>,
                         <<1, a.e02, b.e23>>, <<1, b.e01, a.e31>>,
                         <<-1, b.e02, a.e23>>, <<-1, a.e12, b.e0123>>,
                         <<-1, b.e12, a.e0123>> >>)]

\* transform_direction(_Vec3, _Motor3)
transform_direction(a, m) ==
  [x |-> Polynomial(<< <<1, a.x, m.e23, m.e23>>, <<-1, a.x, m.e31, m.e31>>,
                       <<-1, a.x, m.e12, m.e12>>, <<1, a.x, m.s, m.s>>,
                       <<2, a.y, m.e31, m.e23>>, <<2, a.y, m.e12, m.s>>,
                       <<-2, a.z, m.e31, m.s>>, <<2, a.z, m.e12, m.e23>> >>),
   y |-> Polynomial(<< <<-1, a.y, m.e23, m.e23>>, <<1, a.y, m.e31, m.e31>>,
                       <<-1, a.y, m.e12, m.e12>>, <<1, a.y, m.s, m.s>>,
                       <<2, a.z, m.s, m.e23>>, <<2, a.z, m.e31, m.e12>>,
                       <<2, a.x, m.e31, m.e23>>, <<-2, a.x, m.s, m.e12>> >>),
   z |-> Polynomial(<< <<-1, a.z, m.e23, m.e23>>, <<-1, a.z, m.e31, m.e31>>,
                       <<1, a.z, m.e12, m.e12>>, <<1, a.z, m.s, m.s>>,
                       <<2, a.x, m.e12, m.e23>>, <<2, a.x, m.s, m.e31>>,
                       <<-2, a.y, m.s, m.e23>>, <<2, a.y, m.e31, m.e12>> >>)]

\* transform_point: the local norm
transform_point_norm(m) ==
  Polynomial(<< <<1, m.s, m.s>>, <<1, m.e23, m.e23>>, <<1, m.e31, m.e31>>,
                <<1, m.e12, m.e12>> >>)

\* transform_point: the vector that is divided by norm
transform_point_sandwich(a, m) ==
  [x |-> Polynomial(<< <<1, a.x, m.e23, m.e23>>, <<-1, a.x, m.e31, m.e31>>,
                       <<-1, a.x, m.e12, m.e12>>, <<1, a.x, m.s, m.s>>,
                       <<2, a.y, m.e23, m.e31>>, <<2, a.y, m.s, m.e12>>,
                       <<2, a.z, m.e23, m.e12>>, <<-2, a.z, m.s, m.e31>>,
                       <<-2, m.e01, m.s>>, <<-2, m.e02, m.e12>>, <<2, m.e03, m.e31>>,
                       <<-2, m.e0123, m.e23>> >>),
   y |-> Polynomial(<< <<-1, a.y, m.e23, m.e23>>, <<1, a.y, m.e31, m.e31>>,
                       <<-1, a.y, m.e12, m.e12>>, <<1, a.y, m.s, m.s>>,
                       <<2, a.z, m.s, m.e23>>, <<2, a.x, m.e23, m.e31>>,
                       <<2, a.z, m.e31, m.e12>>, <<-2, a.x, m.s, m.e12>>,
                       <<2, m.e01, m.e12>>, <<-2, m.e02, m.s>>, <<-2, m.e03, m.e23>>,
                       <<-2, m.e0123, m.e31>> >>),
   z |-> Polynomial(<< <<-1, a.z, m.e23, m.e23>>, <<-1, a.z, m.e31, m.e31>>,
                       <<1, a.z, m.e12, m.e12>>, <<1, a.z, m.s, m.s>>,
                       <<2, a.x, m.e23, m.e12>>, <<2, a.x, m.e31, m.s>>,
                       <<-2, a.y, m.e23, m.s>>, <<2, a.y, m.e31, m.e12>>,
                       <<-2, m.e01, m.e31>>, <<2, m.e02, m.e23>>, <<-2, m.e03, m.s>>,
                       <<-2, m.e0123, m.e12>> >>)]

transform_point(a, m) == Vec3_div(transform_point_sandwich(a, m), transform_point_norm(m))

\* transform(_Plane3, _Motor3), transform(_Line3, _Motor3) and
\* transform(_Point3, _Motor3)
transform(a, m) ==
  CASE FlatType(a) = "Plane3" ->
         [e1 |-> Polynomial(<< <<-1, a.e1, m.e12, m.e12>>, <<-1, a.e1, m.e31, m.e31>>,
                               <<1, a.e1, m.s, m.s>>, <<1, a.e1, m.e23, m.e23>>,
                               <<2, a.e2, m.e12, m.s>>, <<2, a.e2, m.e23, m.e31>>,
                               <<-2, a.e3, m.s, m.e31>>, <<2, a.e3, m.e12, m.e23>> >>),
          e2 |-> Polynomial(<< <<-1, a.e2, m.e23, m.e23>>, <<-1, a.e2, m.e12, m.e12>>,
                               <<1, a.e2, m.s, m.s>>, <<1, a.e2, m.e31, m.e31>>,
                               <<2, a.e3, m.s, m.e23>>, <<2, a.e3, m.e12, m.e31>>,
                               <<-2, a.e1, m.s, m.e12>>, <<2, a.e1, m.e23, m.e31>> >>),
          e3 |-> Polynomial(<< <<-1, a.e3, m.e23, m.e23>>, <<-1, a.e3, m.e31, m.e31>>,
                               <<1, a.e3, m.s, m.s>>, <<1, a.e3, m.e12, m.e12>>,
                               <<2, a.e1, m.s, m.e31>>, <<2, a.e1, m.e12, m.e23>>,
                               <<-2, a.e2, m.s, m.e23>>, <<2, a.e2, m.e12, m.e31>> >>),
          e0 |-> Polynomial(<< <<-2, a.e1, m.e02, m.e12>>, <<-2, a.e2, m.e03, m.e23>>,
                               <<-2, a.e3, m.e01, m.e31>>, <<1, a.e0, m.s, m.s>>,
                               <<1, a.e0, m.e23, m.e23>>, <<1, a.e0, m.e31, m.e31>>,
                               <<1, a.e0, m.e12, m.e12>>, <<2, a.e1, m.s, m.e01>>,
                               <<2, a.e2, m.s, m.e02>>, <<2, a.e3, m.s, m.e03>>,
                               <<2, a.e1, m.e0123, m.e23>>, <<2, a.e2, m.e0123, m.e31>>,
                               <<2, a.e3, m.e0123, m.e12>>, <<2, a.e1, m.e03, m.e31>>,
                               <<2, a.e2, m.e12, m.e01>>, <<2, a.e3, m.e02, m.e23>> >>)]
    [] FlatType(a) = "Line3" ->
         [e23 |-> Polynomial(<< <<-1, a.e23, m.e31, m.e31>>, <<-1, a.e23, m.e12, m.e12>>,
                                <<1, a.e23, m.e23, m.e23>>, <<1, a.e23, m.s, m.s>>,
                                <<2, a.e31, m.s, m.e12>>, <<-2, a.e12, m.s, m.e31>>,
                                <<2, a.e31, m.e23, m.e31>>, <<2, a.e12, m.e12, m.e23>> >>),
          e31 |-> Polynomial(<< <<-1, a.e31, m.e23, m.e23>>, <<-1, m.e12, m.e12, a.e31>>,
                                <<1, a.e31, m.e31, m.e31>>, <<1, m.s, m.s, a.e31>>,
                                <<-2, a.e23, m.s, m.e12>>, <<2, a.e12, m.s, m.e23>>,
                                <<2, a.e12, m.e12, m.e31>>, <<2, a.e23, m.e23, m.e31>> >>),
          e12 |-> Polynomial(<< <<-1, a.e12, m.e23, m.e23>>, <<-1, a.e12, m.e31, m.e31>>,
                                <<1, a.e12, m.e12, m.e12>>, <<1, a.e12, m.s, m.s>>,
                                <<2, a.e23, m.s, m.e31>>, <<-2, a.e31, m.s, m.e23>>,
                                <<2, a.e23, m.e12, m.e23>>, <<2, a.e31, m.e12, m.e31>> >>),
          e01 |-> Polynomial(<< <<-1, a.e01, m.e31, m.e31>>, <<-1, a.e01, m.e12, m.e12>>,
                                <<1, a.e01, m.e23, m.e23>>, <<1, a.e01, m.s, m.s>>,
                                <<-2, a.e12, m.s, m.e02>>, <<-2, a.e03, m.s, m.e31>>,
                                <<-2, a.e23, m.s, m.e0123>>, <<-2, a.e23, m.e31, m.e02>>,
                                <<-2, a.e23, m.e12, m.e03>>, <<-2, a.e31, m.e12, m.e0123>>,
                                <<2, a.e31, m.s, m.e03>>, <<2, a.e02, m.s, m.e12>>,
                                <<2, a.e03, m.e12, m.e23>>, <<2, a.e02, m.e23, m.e31>>,
                                <<2, a.e31, m.e01, m.e31>>, <<2, a.e31, m.e23, m.e02>>,
                                <<2, a.e12, m.e03, m.e23>>, <<2, a.e12, m.e12, m.e01>>,
                                <<2, a.e23, m.e23, m.e01>>, <<2, a.e12, m.e0123, m.e31>> >>),
          e02 |-> Polynomial(<< <<-1, a.e02, m.e23, m.e23>>, <<-1, a.e02, m.e12, m.e12>>,
                                <<1, a.e02, m.e31, m.e31>>, <<1, a.e02, m.s, m.s>>,
                                <<2, a.e12, m.s, m.e01>>, <<-2, a.e01, m.s, m.e12>>,
                                <<-2, a.e23, m.s, m.e03>>, <<-2, a.e31, m.e23, m.e01>>,
                                <<-2, a.e31, m.e12, m.e03>>, <<-2, a.e31, m.s, m.e0123>>,
                                <<-2, a.e12, m.e0123, m.e23>>, <<2, a.e03, m.s, m.e23>>,
                                <<2, a.e12, m.e12, m.e02>>, <<2, a.e23, m.e01, m.e31>>,
                                <<2, a.e31, m.e31, m.e02>>, <<2, a.e03, m.e12, m.e31>>,
                                <<2, a.e23, m.e23, m.e02>>, <<2, a.e01, m.e23, m.e31>>,
                                <<2, a.e12, m.e03, m.e31>>, <<2, a.e23, m.e12, m.e0123>> >>),
          e03 |-> Polynomial(<< <<-1, a.e03, m.e23, m.e23>>, <<-1, a.e03, m.e31, m.e31>>,
                                <<1, a.e03, m.e12, m.e12>>, <<1, a.e03, m.s, m.s>>,
                                <<-2, a.e02, m.s, m.e23>>, <<-2, a.e31, m.s, m.e01>>,
                                <<2, a.e23, m.s, m.e02>>, <<-2, a.e12, m.e23, m.e01>>,
                                <<-2, a.e12, m.e31, m.e02>>, <<-2, a.e12, m.s, m.e0123>>,
                                <<-2, a.e23, m.e0123, m.e31>>, <<2, a.e01, m.s, m.e31>>,
                                <<2, a.e23, m.e12, m.e01>>, <<2, a.e31, m.e12, m.e02>>,
                                <<2, a.e12, m.e12, m.e03>>, <<2, a.e01, m.e12, m.e23>>,
                                <<2, a.e02, m.e12, m.e31>>, <<2, a.e23, m.e03, m.e23>>,
                                <<2, a.e31, m.e03, m.e31>>, <<2, a.e31, m.e0123, m.e23>> >>)]
    [] FlatType(a) = "Point3" ->
         [e032 |-> Polynomial(<< <<-1, a.e032, m.e31, m.e31>>, <<-1, a.e032, m.e12, m.e12>>,
                                 <<1, a.e032, m.e23, m.e23>>, <<1, a.e032, m.s, m.s>>,
                                 <<-2, a.e021, m.e31, m.s>>, <<-2, a.e123, m.e01, m.s>>,
                                 <<-2, a.e123, m.e02, m.e12>>,
                                 <<-2, a.e123, m.e0123, m.e23>>,
                                 <<2, a.e013, m.e12, m.s>>, <<2, a.e021, m.e23, m.e12>>,
                                 <<2, a.e013, m.e23, m.e31>>,
                                 <<2, a.e123, m.e31, m.e03>> >>),
          e013 |-> Polynomial(<< <<-1, a.e013, m.e12, m.e12>>, <<-1, a.e013, m.e23, m.e23>>,
                                 <<1, a.e013, m.e31, m.e31>>, <<1, a.e013, m.s, m.s>>,
                                 <<-2, a.e032, m.e12, m.s>>, <<-2, a.e123, m.e02, m.s>>,
                                 <<-2, a.e123, m.e23, m.e03>>,
                                 <<-2, a.e123, m.e0123, m.e31>>,
                                 <<2, a.e021, m.e23, m.s>>, <<2, a.e032, m.e23, m.e31>>,
                                 <<2, a.e021, m.e31, m.e12>>,
                                 <<2, a.e123, m.e01, m.e12>> >>),
          e021 |-> Polynomial(<< <<-1, a.e021, m.e23, m.e23>>, <<-1, a.e021, m.e31, m.e31>>,
                                 <<1, a.e021, m.e12, m.e12>>, <<1, a.e021, m.s, m.s>>,
                                 <<-2, a.e013, m.e23, m.s>>, <<-2, a.e123, m.e03, m.s>>,
                                 <<-2, a.e123, m.e01, m.e31>>,
                                 <<-2, a.e123, m.e0123, m.e12>>,
                                 <<2, a.e032, m.e31, m.s>>, <<2, a.e032, m.e23, m.e12>>,
                                 <<2, a.e013, m.e31, m.e12>>,
                                 <<2, a.e123, m.e23, m.e02>> >>),
          e123 |-> a.e123 (.) Polynomial(<< <<1, m.e23, m.e23>>, <<1, m.e31, m.e31>>,
                                            <<1, m.e12, m.e12>>,
                                            <<1, m.s, m.s>> >>)]

\* fast_sqrt(_Motor3), once its locals scaling and half_g4 are computed
fast_sqrt_of(m, scaling, half_g4) ==
  Motor3(scaling (.) scaling,
         scaling (.) m.e23,
         scaling (.) m.e31,
         scaling (.) m.e12,
         (scaling (.) m.e0123) (-) (m.s (.) half_g4),
         (scaling (.) m.e01) (+) (m.e23 (.) half_g4),
         (scaling (.) m.e02) (+) (m.e31 (.) half_g4),
         (scaling (.) m.e03) (+) (m.e12 (.) half_g4))

\* fast_sqrt(_Motor3)
fast_sqrt(m) == fast_sqrt_of(m, I(1) (+) m.s, Q(1, 2) (.) m.e0123)

\* sqrt(_Motor3): the returned quotient, given the scalar part s of its dividend
\* and the locals num and g4; the two branches differ in s and num only
sqrt_Motor3_quotient(m, s, num, g4) ==
  Motor3_div(Motor3(s, m.e23, m.e31, m.e12,
                    m.e0123 (-) m.s (.) g4,
                    m.e01 (+) m.e23 (.) g4,
                    m.e02 (+) m.e31 (.) g4,
                    m.e03 (+) m.e12 (.) g4),
             RSqrt(num))

\* sqrt(_Motor3): one branch, once its local num is computed
sqrt_Motor3_branch(m, s, num) == sqrt_Motor3_quotient(m, s, num, m.e0123 (/) num)

\* sqrt(_Motor3)
sqrt_Motor3(m) ==
  IF RGeq(m.s, I(0))
  THEN sqrt_Motor3_branch(m, I(1) (+) m.s, I(2) (.) (I(1) (+) m.s))
  ELSE sqrt_Motor3_branch(m, RNeg(I(1)) (+) m.s, I(2) (.) (I(1) (-) m.s))

\* to_screw_coordinates, the branch of a rotation: the four output parameters,
\* once direction and translation are assigned
to_screw_rotation_outputs(m, angle, inv_sin_a, direction, translation) ==
  [direction |-> direction,
   translation |-> translation,
   moment |-> Vec3_sub(Vec3_scale(inv_sin_a, Vec3(m.e01, m.e02, m.e03)),
                       Vec3_scale(Factors(<<Q(1, 2), translation, m.s, inv_sin_a>>),
                                  direction)),
   angle |-> angle]

\* to_screw_coordinates, the branch of a rotation, once inv_sin_a is computed
to_screw_rotation(m, angle, inv_sin_a) ==
  IF inv_sin_a = I(0) /\ HasInfinite(Vec3(m.e01, m.e02, m.e03))
  THEN Undefined
  ELSE to_screw_rotation_outputs(m, angle, inv_sin_a,
                                 Vec3_scale_residue(inv_sin_a, Vec3(m.e23, m.e31, m.e12)),
                                 Factors(<<I(-2), m.s, inv_sin_a>>))

\* A variant of the branch of a translation that leaves direction as the
\* translation vector itself.
to_screw_translation_outputs_unnormalized(angle, direction, translation) ==
  [direction |-> IF ~is_approx_zero(translation) THEN direction ELSE Vec3_ZERO,
   translation |-> translation,
   moment |-> Vec3_INF,
   angle |-> angle]

\* to_screw_coordinates, the branch of a translation: the four output
\* parameters, once translation is assigned
to_screw_translation_outputs(angle, direction, translation) ==
  [direction |-> IF ~is_approx_zero(translation)
                 THEN Vec3_div(direction, translation)
                 ELSE Vec3_ZERO,
   translation |-> translation,
   moment |-> Vec3_INF,
   angle |-> angle]

\* to_screw_coordinates, the branch of a translation, once direction is assigned
to_screw_translation(angle, direction) ==
  to_screw_translation_outputs(angle, direction, length_Vec3(direction))

\* to_screw_coordinates, once angle is assigned
to_screw_branches(m, angle, read) ==
  IF ~is_approx_zero(angle)
  THEN to_screw_rotation(m, angle, RSin(Q(1, 2) (.) angle))
  ELSE to_screw_translation(angle, get_translation(m, read))

\* to_screw_coordinates: the four output parameters as one record
to_screw_coordinates(m, read) == to_screw_branches(m, I(2) (.) RAcos(m.s), read)

\* The outcomes of the reads to_screw_coordinates(m) makes of the halves of
\* m: it calls get_translation(m) in the branch of a translation only.
to_screw_reads(m) ==
  IF ~is_approx_zero(I(2) (.) RAcos(m.s)) THEN {StoredMotor} ELSE MotorReads

\* exp(_Line3) and log(_Motor3): the local ps of a line or motor b
study_ps(b) ==
  Polynomial(<< <<-1, b.e23, b.e01>>, <<-1, b.e31, b.e02>>, <<-1, b.e12, b.e03>> >>)

\* exp(_Line3) and log(_Motor3): the local l of a line or motor b
study_l(b, inv_u, inv_v) ==
  Line3(inv_u (.) b.e23,
        inv_u (.) b.e31,
        inv_u (.) b.e12,
        inv_u (.) b.e01 (-) inv_v (.) b.e23,
        inv_u (.) b.e02 (-) inv_v (.) b.e31,
        inv_u (.) b.e03 (-) inv_v (.) b.e12)

\* exp(_Line3): the returned motor
exp_Line3_result(v, l, cosu, sinu, vcosu) ==
  Motor3(cosu,
         sinu (.) l.e23,
         sinu (.) l.e31,
         sinu (.) l.e12,
         RNeg(v) (.) sinu,
         sinu (.) l.e01 (-) vcosu (.) l.e23,
         sinu (.) l.e02 (-) vcosu (.) l.e31,
         sinu (.) l.e03 (-) vcosu (.) l.e12)

\* Whether exp(_Line3) multiplies the residue of a sine or cosine that is 0 in
\* exact arithmetic with an infinity (u is not 0 there)
exp_Line3_residues(v, l, cosu, sinu) ==
  \/ sinu = I(0)
       /\ (IsInf(v) \/ HasInfinite(Vec3(l.e23, l.e31, l.e12))
             \/ HasInfinite(Vec3(l.e01, l.e02, l.e03)))
  \/ cosu = I(0)
       /\ (IsInf(v)
             \/ (v # I(0) /\ ~IsNaN(v) /\ HasInfinite(Vec3(l.e23, l.e31, l.e12))))

\* exp(_Line3), once l, cosu and sinu are computed
exp_Line3_l(v, l, cosu, sinu) ==
  IF exp_Line3_residues(v, l, cosu, sinu)
  THEN Undefined
  ELSE exp_Line3_result(v, l, cosu, sinu, v (.) cosu)

\* exp(_Line3), once v is computed
exp_Line3_v(b, r, u, v) ==
  exp_Line3_l(v, study_l(b, I(1) (/) u, RNeg(v) (/) r), RCos(u), RSin(u))

\* exp(_Line3), once ps and u are computed
exp_Line3_u(b, r, ps, u) == exp_Line3_v(b, r, u, ps (/) u)

\* exp(_Line3), once r is computed
exp_Line3_r(b, r) ==
  IF is_square_approx_zero(r)
  THEN Motor3_rd(Rotor3_IDENTITY, Rotor3(I(0), b.e01, b.e02, b.e03))
  ELSE exp_Line3_u(b, r, study_ps(b), RSqrt(r))

\* exp(_Line3)
exp_Line3(b) == exp_Line3_r(b, magnitude_squared_Line3(b))

\* log(_Motor3): the returned line
log_Motor3_result(l, a, b) ==
  Line3(a (.) l.e23,
        a (.) l.e31,
        a (.) l.e12,
        a (.) l.e01 (-) b (.) l.e23,
        a (.) l.e02 (-) b (.) l.e31,
        a (.) l.e03 (-) b (.) l.e12)

\* log(_Motor3), once v is computed
log_Motor3_v(m, r, u, v) ==
  log_Motor3_result(study_l(m, I(1) (/) u, RNeg(v) (/) r),
                    RAtan2(u, m.s),
                    IF is_approx_zero(m.s) THEN RNeg(m.e0123) (/) u ELSE v (/) m.s)

\* log(_Motor3), once ps and u are computed
log_Motor3_u(m, r, ps, u) == log_Motor3_v(m, r, u, ps (/) u)

\* log(_Motor3), once r is computed
log_Motor3_r(m, r) ==
  IF is_approx_zero(r)
  THEN Line3(I(0), I(0), I(0), m.e01, m.e02, m.e03)
  ELSE log_Motor3_u(m, r, study_ps(m), RSqrt(r))

\* log(_Motor3)
log_Motor3(m) == log_Motor3_r(m, length_Vec3(Vec3(m.e23, m.e31, m.e12)))

\* pow(_Motor3, T)
pow_Motor3(m, power) == exp_Line3(Line3_scale(power, log_Motor3(m)))

(***************************************************************************)
(* The arithmetic of T.  A value of T is a record [neg, m, e] standing for *)
(* (-1)^neg * m * 2^e, where m is a natural number of at most p            *)
(* significant bits: p = 24 for float and p = 53 for double.  A natural    *)
(* number is the sequence of its digits in base 2^15, the lowest first and *)
(* the highest not 0; the empty sequence is 0.  Each operation computes    *)
(* the exact result and rounds it to the nearest value of p bits, a tie to *)
(* the even one, as IEEE 754 arithmetic does.                              *)
(***************************************************************************)

Digit(n) == n % 32768

Carry(n) == n \div 32768

DigitOr0(m, i) == IF i >= 1 /\ i <= Len(m) THEN m[i] ELSE 0

Front(m) == SubSeq(m, 1, Len(m) - 1)

RECURSIVE Trim(_)
Trim(m) == IF m # <<>> /\ m[Len(m)] = 0 THEN Trim(Front(m)) ELSE m

\* The natural number n < 2^31
NatOf(n) == Trim(<<Digit(n), Digit(Carry(n)), Carry(Carry(n))>>)

RECURSIVE NatAddCarry(_, _, _)
NatAddCarry(m, n, c) ==
  IF m = <<>> /\ n = <<>>
  THEN IF c = 0 THEN <<>> ELSE <<c>>
  ELSE <<Digit(DigitOr0(m, 1) + DigitOr0(n, 1) + c)>>
         \o NatAddCarry(SubSeq(m, 2, Len(m)), SubSeq(n, 2, Len(n)),
                        Carry(DigitOr0(m, 1) + DigitOr0(n, 1) + c))

NatAdd(m, n) == NatAddCarry(m, n, 0)

RECURSIVE NatSubBorrow(_, _, _)
NatSubBorrow(m, n, b) ==
  IF m = <<>>
  THEN <<>>
  ELSE <<Digit(m[1] - DigitOr0(n, 1) - b + 32768)>>
         \o NatSubBorrow(Tail(m), SubSeq(n, 2, Len(n)),
                         IF m[1] - DigitOr0(n, 1) - b < 0 THEN 1 ELSE 0)

\* m - n, for m >= n
NatSub(m, n) == Trim(NatSubBorrow(m, n, 0))

RECURSIVE NatLess(_, _)
NatLess(m, n) ==
  IF Len(m) # Len(n) THEN Len(m) < Len(n)
  ELSE IF m = <<>> THEN FALSE
  ELSE IF m[Len(m)] # n[Len(n)] THEN m[Len(m)] < n[Len(n)]
  ELSE NatLess(Front(m), Front(n))

\* m * k + c, for k <= 2^15 and c < 2^15
RECURSIVE NatScaleCarry(_, _, _)
NatScaleCarry(m, k, c) ==
  IF m = <<>>
  THEN IF c = 0 THEN <<>> ELSE <<c>>
  ELSE <<Digit(m[1] * k + c)>> \o NatScaleCarry(Tail(m), k, Carry(m[1] * k + c))

NatScale(m, k) == IF k = 0 THEN <<>> ELSE NatScaleCarry(m, k, 0)

\* m * 2^(15 * k)
ShiftDigits(m, k) == IF m = <<>> THEN <<>> ELSE [i \in 1..k |-> 0] \o m

RECURSIVE NatMul(_, _)
NatMul(m, n) ==
  IF m = <<>> \/ n = <<>>
  THEN <<>>
  ELSE NatAdd(NatScale(m, n[1]), ShiftDigits(NatMul(m, Tail(n)), 1))

\* m * 2^k
NatShiftLeft(m, k) == ShiftDigits(NatScale(m, 2^(k % 15)), k \div 15)

\* m \div 2^k
NatShiftRight(m, k) ==
  Trim([i \in 1..(Len(m) - k \div 15) |->
          (m[i + k \div 15] \div 2^(k % 15))
            + Digit(DigitOr0(m, i + k \div 15 + 1) * 2^(15 - (k % 15)))])

\* The bit of m of weight 2^i
NatBit(m, i) == (DigitOr0(m, i \div 15 + 1) \div 2^(i % 15)) % 2

\* m has a bit of weight less than 2^i
NatAnyBelow(m, i) ==
  \/ \E j \in 1..Len(m) : j <= i \div 15 /\ m[j] # 0
  \/ DigitOr0(m, i \div 15 + 1) % 2^(i % 15) # 0

RECURSIVE IntBits(_)
IntBits(n) == IF n = 0 THEN 0 ELSE 1 + IntBits(n \div 2)

\* The number of significant bits of m
NatBits(m) == IF m = <<>> THEN 0 ELSE 15 * (Len(m) - 1) + IntBits(m[Len(m)])

\* The remainder and the quotient of m by d < 2^15, r being the remainder of
\* the digits above those of m
RECURSIVE NatRemFrom(_, _, _)
NatRemFrom(m, d, r) ==
  IF m = <<>> THEN r ELSE NatRemFrom(Front(m), d, (r * 32768 + m[Len(m)]) % d)

RECURSIVE NatQuotFrom(_, _, _)
NatQuotFrom(m, d, r) ==
  IF m = <<>>
  THEN <<>>
  ELSE NatQuotFrom(Front(m), d, (r * 32768 + m[Len(m)]) % d)
         \o <<(r * 32768 + m[Len(m)]) \div d>>

NatRem(m, d) == NatRemFrom(m, d, 0)

NatQuot(m, d) == Trim(NatQuotFrom(m, d, 0))

\* The number of significant bits of T
Precision(T) == IF T = "float" THEN 24 ELSE 53

Fl(neg, m, e) == [neg |-> neg, m |-> m, e |-> e]

\* m without its k lowest bits goes up when they are more than half of 2^k,
\* or half of it and the bit above them is 1
FlRoundsUp(m, k) == NatBit(m, k - 1) = 1 /\ (NatAnyBelow(m, k - 1) \/ NatBit(m, k) = 1)

FlRoundAt(neg, m, e, k) ==
  Fl(neg,
     IF FlRoundsUp(m, k) THEN NatAdd(NatShiftRight(m, k), <<1>>) ELSE NatShiftRight(m, k),
     e + k)

\* m * 2^e rounded to p significant bits
FlRound(neg, m, e, p) ==
  IF NatBits(m) <= p THEN Fl(neg, m, e) ELSE FlRoundAt(neg, m, e, NatBits(m) - p)

\* n / d rounded to p bits: the quotient of n * 2^(p + 17) by d has more than
\* p + 2 bits, and a bit below them records that the division left a remainder
FlQuotientOf(neg, scaled, d, p) ==
  FlRound(neg,
          NatAdd(NatScale(NatQuot(scaled, d), 2),
                 IF NatRem(scaled, d) = 0 THEN <<>> ELSE <<1>>),
          -(p + 18), p)

FlQuotient(n, d, p) ==
  FlQuotientOf(n < 0, NatShiftLeft(NatOf(IF n < 0 THEN -n ELSE n), p + 17), d, p)

\* The value of T nearest to the rational scalar x
FlOfScalar(x, p) ==
  IF x = <<>> THEN Fl(FALSE, <<>>, 0)
  ELSE IF Len(x) = 1 /\ x[1][1] = 0 /\ x[1][3] > 0 /\ x[1][3] < 32768
       THEN FlQuotient(x[1][2], x[1][3], p)
       ELSE Undefined

FlMul(x, y, p) == FlRound(x.neg # y.neg, NatMul(x.m, y.m), x.e + y.e, p)

FlNeg(x) == Fl(~x.neg, x.m, x.e)

\* x + y, both written with the exponent e
FlSum(xneg, xm, yneg, ym, e, p) ==
  IF xneg = yneg THEN FlRound(xneg, NatAdd(xm, ym), e, p)
  ELSE IF NatLess(xm, ym) THEN FlRound(yneg, NatSub(ym, xm), e, p)
  ELSE FlRound(xneg, NatSub(xm, ym), e, p)

FlAddAt(x, y, e, p) ==
  FlSum(x.neg, NatShiftLeft(x.m, x.e - e), y.neg, NatShiftLeft(y.m, y.e - e), e, p)

FlAdd(x, y, p) ==
  IF x.m = <<>> THEN y
  ELSE IF y.m = <<>> THEN x
  ELSE FlAddAt(x, y, IF x.e < y.e THEN x.e ELSE y.e, p)

\* -1 when |x| < 1, 0 when |x| = 1 and 1 when |x| > 1
FlAgainstOne(x) ==
  IF x.m = <<>> THEN -1
  ELSE IF x.e > 0 THEN 1
  ELSE IF NatLess(NatShiftLeft(<<1>>, -x.e), x.m) THEN 1
  ELSE IF NatLess(x.m, NatShiftLeft(<<1>>, -x.e)) THEN -1
  ELSE 0

\* x1 * y1 - x2 * y2 - ... - xn * yn computed in T from left to right, for
\* products = <<x1, y1>>, <<x2, y2>>, ...: acc is the value of the part
\* that is computed
RECURSIVE FlProductsFrom(_, _, _)
FlProductsFrom(acc, products, p) ==
  IF products = <<>>
  THEN acc
  ELSE FlProductsFrom(FlAdd(acc, FlNeg(FlMul(FlOfScalar(products[1][1], p),
                                              FlOfScalar(products[1][2], p), p)), p),
                      Tail(products), p)

FlProducts(products, p) ==
  FlProductsFrom(FlMul(FlOfScalar(products[1][1], p), FlOfScalar(products[1][2], p), p),
                 Tail(products), p)

\* operator*(_Motor3, _Motor3): the coefficient s of a * b, computed in T
Motor3_mul_s(a, b, T) ==
  FlProducts(<< <<b.s, a.s>>, <<b.e23, a.e23>>, <<a.e31, b.e31>>, <<b.e12, a.e12>> >>,
             Precision(T))

\* std::acos(m.s) for m = a * b.  Without rounding m.s is x; where x is 1 or
\* -1, the rounding of T decides whether the argument is within [-1, 1]:
\* against_one compares the coefficient computed in T with 1.  The arc cosine
\* of an argument above 1 is not a number, and that of one just below 1 is
\* an angle the model has no value for.
acos_rounded(x, against_one) ==
  IF against_one = 1 THEN NAN
  ELSE IF against_one = 0 THEN RAcos(x)
  ELSE Undefined

acos_Motor3_mul_s(x, a, b, T) ==
  IF x \in {I(1), I(-1)}
  THEN acos_rounded(x, FlAgainstOne(Motor3_mul_s(a, b, T)))
  ELSE RAcos(x)

seplerp(a, b, t, read) ==
  from_rotor_translation(slerp(get_rotor(a, read), get_rotor(b, read), t),
                         lerp_Vec3(get_translation(a, read), get_translation(b, read), t))

\* sclerp, once to_screw_coordinates has assigned direction, moment, angle
\* and translation
sclerp_of(a, t, sc) ==
  Motor3_mul(a, from_screw_coordinates(sc.direction, sc.moment,
                                       t (.) sc.angle, t (.) sc.translation))

\* sclerp: the angle to_screw_coordinates takes of delta = reverse(a) * b
sclerp_angle(a, b, T) ==
  I(2) (.) acos_Motor3_mul_s(Motor3_mul(reverse_Motor3(a), b).s, reverse_Motor3(a), b, T)

\* sclerp, once that angle is taken
sclerp_at(a, b, t, read, angle) ==
  sclerp_of(a, t, to_screw_branches(Motor3_mul(reverse_Motor3(a), b), angle, read))

sclerp(a, b, t, read, T) == sclerp_at(a, b, t, read, sclerp_angle(a, b, T))

\* The outcomes of the reads sclerp makes, all in to_screw_coordinates: it
\* calls get_translation in the branch of a translation only.
sclerp_reads_at(angle) == IF ~is_approx_zero(angle) THEN {StoredMotor} ELSE MotorReads

sclerp_reads(a, b, T) == sclerp_reads_at(sclerp_angle(a, b, T))

lielerp(a, b, t) == Motor3_mul(a, pow_Motor3(Motor3_mul(reverse_Motor3(a), b), t))

(***************************************************************************)
(* pga_3d.hpp: _Mvec3, the multivector of 16 coefficients data[0..15] on   *)
(* the basis blades 1, e0, e1, e2, e3, e01, e02, e03, e12, e31, e23, e021, *)
(* e013, e032, e123, e0123                                                 *)
(***************************************************************************)

\* enum class _Mvec3::Basis
Basis ==
  [s |-> 0, e0 |-> 1, e1 |-> 2, e2 |-> 3, e3 |-> 4,
   e01 |-> 5, e02 |-> 6, e03 |-> 7, e12 |-> 8, e31 |-> 9, e23 |-> 10,
   e021 |-> 11, e013 |-> 12, e032 |-> 13, e123 |-> 14, e0123 |-> 15]

\* _Mvec3(const T values[16]); values is a tuple, values[1] the coefficient data[0]
Mvec3(values) == [i \in 0..15 |-> values[i + 1]]

\* _Mvec3(): data({})
Mvec3_ZERO == [i \in 0..15 |-> I(0)]

\* _Mvec3::grade: res is value-initialised, then the switch assigns
grade(this, g) ==
  CASE g = 0 -> [Mvec3_ZERO EXCEPT ![Basis.s] = this[Basis.s]]
    [] g = 1 -> [Mvec3_ZERO EXCEPT ![Basis.e0] = this[Basis.e0],
                                   ![Basis.e1] = this[Basis.e1],
                                   ![Basis.e2] = this[Basis.e2],
                                   ![Basis.e3] = this[Basis.e3]]
    [] g = 2 -> [Mvec3_ZERO EXCEPT ![Basis.e01] = this[Basis.e01],
                                   ![Basis.e02] = this[Basis.e02],
                                   ![Basis.e03] = this[Basis.e03],
                                   ![Basis.e23] = this[Basis.e23],
                                   ![Basis.e31] = this[Basis.e31],
                                   ![Basis.e12] = this[Basis.e12]]
    [] g = 3 -> [Mvec3_ZERO EXCEPT ![Basis.e032] = this[Basis.e032],
                                   ![Basis.e013] = this[Basis.e013],
                                   ![Basis.e021] = this[Basis.e021],
                                   ![Basis.e123] = this[Basis.e123]]
    [] g = 4 -> [Mvec3_ZERO EXCEPT ![Basis.e0123] = @]
    [] OTHER -> Mvec3_ZERO

\* _Mvec3::line_plucker
line_plucker(ux, uy, uz, mx, my, mz) ==
  [Mvec3_ZERO EXCEPT ![Basis.e23] = ux, ![Basis.e31] = uy, ![Basis.e12] = uz,
                     ![Basis.e01] = mx, ![Basis.e02] = my, ![Basis.e03] = mz]

\* _Mvec3::point(const T x, const T y, const T z)
Mvec3_point(x, y, z) ==
  [Mvec3_ZERO EXCEPT ![Basis.e123] = I(1), ![Basis.e032] = x,
                     ![Basis.e013] = y, ![Basis.e021] = z]

\* A variant of operator&(_Mvec3, _Mvec3) with one sign of the coefficient of
\* e0123 changed.
Mvec3_outer_signed(a, b) ==
  Mvec3(<<
    Polynomial(<< <<1, b[0], a[0]>> >>),
    Polynomial(<< <<1, b[1], a[0]>>, <<1, b[0], a[1]>> >>),
    Polynomial(<< <<1, b[2], a[0]>>, <<1, b[0], a[2]>> >>),
    Polynomial(<< <<1, b[3], a[0]>>, <<1, b[0], a[3]>> >>),
    Polynomial(<< <<1, b[4], a[0]>>, <<1, b[0], a[4]>> >>),
    Polynomial(<< <<1, b[5], a[0]>>, <<1, b[2], a[1]>>, <<-1, b[1], a[2]>>, <<1, b[0], a[5]>> >>),
    Polynomial(<< <<1, b[6], a[0]>>, <<1, b[3], a[1]>>, <<-1, b[1], a[3]>>, <<1, b[0], a[6]>> >>),
    Polynomial(<< <<1, b[7], a[0]>>, <<1, b[4], a[1]>>, <<-1, b[1], a[4]>>, <<1, b[0], a[7]>> >>),
    Polynomial(<< <<1, b[8], a[0]>>, <<1, b[3], a[2]>>, <<-1, b[2], a[3]>>, <<1, b[0], a[8]>> >>),
    Polynomial(<< <<1, b[9], a[0]>>, <<-1, b[4], a[2]>>, <<1, b[2], a[4]>>, <<1, b[0], a[9]>> >>),
    Polynomial(<< <<1, b[10], a[0]>>, <<1, b[4], a[3]>>, <<-1, b[3], a[4]>>, <<1, b[0], a[10]>> >>),
    Polynomial(<< <<1, b[11], a[0]>>, <<-1, b[8], a[1]>>, <<1, b[6], a[2]>>, <<-1, b[5], a[3]>>,
                  <<-1, b[3], a[5]>>, <<1, b[2], a[6]>>, <<-1, b[1], a[8]>>, <<1, b[0], a[11]>> >>),
    Polynomial(<< <<1, b[12], a[0]>>, <<-1, b[9], a[1]>>, <<-1, b[7], a[2]>>, <<1, b[5], a[4]>>,
                  <<1, b[4], a[5]>>, <<-1, b[2], a[7]>>, <<-1, b[1], a[9]>>, <<1, b[0], a[12]>> >>),
    Polynomial(<< <<1, b[13], a[0]>>, <<-1, b[10], a[1]>>, <<1, b[7], a[3]>>, <<-1, b[6], a[4]>>,
                  <<-1, b[4], a[6]>>, <<1, b[3], a[7]>>, <<-1, b[1], a[10]>>, <<1, b[0], a[13]>> >>),
    Polynomial(<< <<1, b[14], a[0]>>, <<1, b[10], a[2]>>, <<1, b[9], a[3]>>, <<1, b[8], a[4]>>,
                  <<1, b[4], a[8]>>, <<1, b[3], a[9]>>, <<1, b[2], a[10]>>, <<1, b[0], a[14]>> >>),
    Polynomial(<< <<1, b[15], a[0]>>, <<1, b[14], a[1]>>, <<1, b[13], a[2]>>, <<1, b[12], a[3]>>,
                  <<1, b[11], a[4]>>, <<-1, b[10], a[5]>>, <<1, b[9], a[6]>>, <<1, b[8], a[7]>>,
                  <<1, b[7], a[8]>>, <<1, b[6], a[9]>>, <<1, b[5], a[10]>>, <<-1, b[4], a[11]>>,
                  <<-1, b[3], a[12]>>, <<-1, b[2], a[13]>>, <<-1, b[1], a[14]>>,
                  <<1, b[0], a[15]>> >>)
  >>)

\* _Mvec3::hdual
hdual(a) ==
  Mvec3(<< a[15], a[14], a[13], a[12], a[11], a[10], a[9], a[8],
           a[7], a[6], a[5], a[4], a[3], a[2], a[1], a[0] >>)

\* operator&(_Mvec3, _Mvec3), the outer product
Mvec3_outer(a, b) ==
  Mvec3(<<
    Polynomial(<< <<1, b[0], a[0]>> >>),
    Polynomial(<< <<1, b[1], a[0]>>, <<1, b[0], a[1]>> >>),
    Polynomial(<< <<1, b[2], a[0]>>, <<1, b[0], a[2]>> >>),
    Polynomial(<< <<1, b[3], a[0]>>, <<1, b[0], a[3]>> >>),
    Polynomial(<< <<1, b[4], a[0]>>, <<1, b[0], a[4]>> >>),
    Polynomial(<< <<1, b[5], a[0]>>, <<1, b[2], a[1]>>, <<-1, b[1], a[2]>>, <<1, b[0], a[5]>> >>),
    Polynomial(<< <<1, b[6], a[0]>>, <<1, b[3], a[1]>>, <<-1, b[1], a[3]>>, <<1, b[0], a[6]>> >>),
    Polynomial(<< <<1, b[7], a[0]>>, <<1, b[4], a[1]>>, <<-1, b[1], a[4]>>, <<1, b[0], a[7]>> >>),
    Polynomial(<< <<1, b[8], a[0]>>, <<1, b[3], a[2]>>, <<-1, b[2], a[3]>>, <<1, b[0], a[8]>> >>),
    Polynomial(<< <<1, b[9], a[0]>>, <<-1, b[4], a[2]>>, <<1, b[2], a[4]>>, <<1, b[0], a[9]>> >>),
    Polynomial(<< <<1, b[10], a[0]>>, <<1, b[4], a[3]>>, <<-1, b[3], a[4]>>, <<1, b[0], a[10]>> >>),
    Polynomial(<< <<1, b[11], a[0]>>, <<-1, b[8], a[1]>>, <<1, b[6], a[2]>>, <<-1, b[5], a[3]>>,
                  <<-1, b[3], a[5]>>, <<1, b[2], a[6]>>, <<-1, b[1], a[8]>>, <<1, b[0], a[11]>> >>),
    Polynomial(<< <<1, b[12], a[0]>>, <<-1, b[9], a[1]>>, <<-1, b[7], a[2]>>, <<1, b[5], a[4]>>,
                  <<1, b[4], a[5]>>, <<-1, b[2], a[7]>>, <<-1, b[1], a[9]>>, <<1, b[0], a[12]>> >>),
    Polynomial(<< <<1, b[13], a[0]>>, <<-1, b[10], a[1]>>, <<1, b[7], a[3]>>, <<-1, b[6], a[4]>>,
                  <<-1, b[4], a[6]>>, <<1, b[3], a[7]>>, <<-1, b[1], a[10]>>, <<1, b[0], a[13]>> >>),
    Polynomial(<< <<1, b[14], a[0]>>, <<1, b[10], a[2]>>, <<1, b[9], a[3]>>, <<1, b[8], a[4]>>,
                  <<1, b[4], a[8]>>, <<1, b[3], a[9]>>, <<1, b[2], a[10]>>, <<1, b[0], a[14]>> >>),
    Polynomial(<< <<1, b[15], a[0]>>, <<1, b[14], a[1]>>, <<1, b[13], a[2]>>, <<1, b[12], a[3]>>,
                  <<1, b[11], a[4]>>, <<1, b[10], a[5]>>, <<1, b[9], a[6]>>, <<1, b[8], a[7]>>,
                  <<1, b[7], a[8]>>, <<1, b[6], a[9]>>, <<1, b[5], a[10]>>, <<-1, b[4], a[11]>>,
                  <<-1, b[3], a[12]>>, <<-1, b[2], a[13]>>, <<-1, b[1], a[14]>>,
                  <<1, b[0], a[15]>> >>)
  >>)

\* operator|(_Mvec3, _Mvec3), the regressive product
Mvec3_regressive(a, b) ==
  Mvec3(<<
    Polynomial(<< <<1, a[0], b[15]>>, <<-1, a[1], b[14]>>, <<-1, a[2], b[13]>>, <<-1, a[3], b[12]>>,
                  <<-1, a[4], b[11]>>, <<1, a[5], b[10]>>, <<1, a[6], b[9]>>, <<1, a[7], b[8]>>,
                  <<1, a[8], b[7]>>, <<1, a[9], b[6]>>, <<1, a[10], b[5]>>, <<1, a[11], b[4]>>,
                  <<1, a[12], b[3]>>, <<1, a[13], b[2]>>, <<1, a[14], b[1]>>, <<1, a[15], b[0]>> >>),
    Polynomial(<< <<1, a[1], b[15]>>, <<-1, a[5], b[13]>>, <<-1, a[6], b[12]>>, <<-1, a[7], b[11]>>,
                  <<-1, a[11], b[7]>>, <<-1, a[12], b[6]>>, <<-1, a[13], b[5]>>,
                  <<1, a[15], b[1]>> >>),
    Polynomial(<< <<1, a[2], b[15]>>, <<1, a[5], b[14]>>, <<-1, a[8], b[12]>>, <<1, a[9], b[11]>>,
                  <<1, a[11], b[9]>>, <<-1, a[12], b[8]>>, <<1, a[14], b[5]>>,
                  <<1, a[15], b[2]>> >>),
    Polynomial(<< <<1, a[3], b[15]>>, <<1, a[6], b[14]>>, <<1, a[8], b[13]>>, <<-1, a[10], b[11]>>,
                  <<-1, a[11], b[10]>>, <<1, a[13], b[8]>>, <<1, a[14], b[6]>>,
                  <<1, a[15], b[3]>> >>),
    Polynomial(<< <<1, a[4], b[15]>>, <<1, a[7], b[14]>>, <<-1, a[9], b[13]>>, <<1, a[10], b[12]>>,
                  <<1, a[12], b[10]>>, <<-1, a[13], b[9]>>, <<1, a[14], b[7]>>,
                  <<1, a[15], b[4]>> >>),
    Polynomial(<< <<1, a[5], b[15]>>, <<1, a[11], b[12]>>, <<-1, a[12], b[11]>>, <<1, a[15], b[5]>> >>),
    Polynomial(<< <<1, a[6], b[15]>>, <<-1, a[11], b[13]>>, <<1, a[13], b[11]>>, <<1, a[15], b[6]>> >>),
    Polynomial(<< <<1, a[7], b[15]>>, <<1, a[12], b[13]>>, <<-1, a[13], b[12]>>, <<1, a[15], b[7]>> >>),
    Polynomial(<< <<1, a[8], b[15]>>, <<1, a[11], b[14]>>, <<-1, a[14], b[11]>>, <<1, a[15], b[8]>> >>),
    Polynomial(<< <<1, a[9], b[15]>>, <<1, a[12], b[14]>>, <<-1, a[14], b[12]>>, <<1, a[15], b[9]>> >>),
    Polynomial(<< <<1, a[10], b[15]>>, <<1, a[13], b[14]>>, <<-1, a[14], b[13]>>,
                  <<1, a[15], b[10]>> >>),
    Polynomial(<< <<1, a[11], b[15]>>, <<1, a[15], b[11]>> >>),
    Polynomial(<< <<1, a[12], b[15]>>, <<1, a[15], b[12]>> >>),
    Polynomial(<< <<1, a[13], b[15]>>, <<1, a[15], b[13]>> >>),
    Polynomial(<< <<1, a[14], b[15]>>, <<1, a[15], b[14]>> >>),
    Polynomial(<< <<1, a[15], b[15]>> >>)
  >>)

\* A variant of _Mvec3::rev that changes the sign of the coefficients of
\* e01, e02 and e03 only.
Mvec3_rev_partial(a) ==
  Mvec3(<< a[0], a[1], a[2], a[3], a[4], RNeg(a[5]), RNeg(a[6]), RNeg(a[7]), a[8],
           a[9], a[10], a[11], a[12], a[13], a[14], a[15] >>)

\* _Mvec3::rev
Mvec3_rev(a) ==
  Mvec3(<< a[0], a[1], a[2], a[3], a[4], RNeg(a[5]), RNeg(a[6]), RNeg(a[7]), RNeg(a[8]),
           RNeg(a[9]), RNeg(a[10]), RNeg(a[11]), RNeg(a[12]), RNeg(a[13]), RNeg(a[14]), a[15] >>)

\* operator*(_Mvec3, _Mvec3), the geometric product
Mvec3_mul(a, b) ==
  Mvec3(<<
    Polynomial(<< <<1, b[0], a[0]>>, <<1, b[2], a[2]>>, <<1, b[3], a[3]>>, <<1, b[4], a[4]>>,
                  <<-1, b[8], a[8]>>, <<-1, b[9], a[9]>>, <<-1, b[10], a[10]>>,
                  <<-1, b[14], a[14]>> >>),
    Polynomial(<< <<1, b[1], a[0]>>, <<1, b[0], a[1]>>, <<-1, b[5], a[2]>>, <<-1, b[6], a[3]>>,
                  <<-1, b[7], a[4]>>, <<1, b[2], a[5]>>, <<1, b[3], a[6]>>, <<1, b[4], a[7]>>,
                  <<1, b[11], a[8]>>, <<1, b[12], a[9]>>, <<1, b[13], a[10]>>, <<1, b[8], a[11]>>,
                  <<1, b[9], a[12]>>, <<1, b[10], a[13]>>, <<1, b[15], a[14]>>,
                  <<-1, b[14], a[15]>> >>),
    Polynomial(<< <<1, b[2], a[0]>>, <<1, b[0], a[2]>>, <<-1, b[8], a[3]>>, <<1, b[9], a[4]>>,
                  <<1, b[3], a[8]>>, <<-1, b[4], a[9]>>, <<-1, b[14], a[10]>>,
                  <<-1, b[10], a[14]>> >>),
    Polynomial(<< <<1, b[3], a[0]>>, <<1, b[8], a[2]>>, <<1, b[0], a[3]>>, <<-1, b[10], a[4]>>,
                  <<-1, b[2], a[8]>>, <<-1, b[14], a[9]>>, <<1, b[4], a[10]>>,
                  <<-1, b[9], a[14]>> >>),
    Polynomial(<< <<1, b[4], a[0]>>, <<-1, b[9], a[2]>>, <<1, b[10], a[3]>>, <<1, b[0], a[4]>>,
                  <<-1, b[14], a[8]>>, <<1, b[2], a[9]>>, <<-1, b[3], a[10]>>,
                  <<-1, b[8], a[14]>> >>),
    Polynomial(<< <<1, b[5], a[0]>>, <<1, b[2], a[1]>>, <<-1, b[1], a[2]>>, <<-1, b[11], a[3]>>,
                  <<1, b[12], a[4]>>, <<1, b[0], a[5]>>, <<-1, b[8], a[6]>>, <<1, b[9], a[7]>>,
                  <<1, b[6], a[8]>>, <<-1, b[7], a[9]>>, <<-1, b[15], a[10]>>, <<-1, b[3], a[11]>>,
                  <<1, b[4], a[12]>>, <<1, b[14], a[13]>>, <<-1, b[13], a[14]>>,
                  <<-1, b[10], a[15]>> >>),
    Polynomial(<< <<1, b[6], a[0]>>, <<1, b[3], a[1]>>, <<1, b[11], a[2]>>, <<-1, b[1], a[3]>>,
                  <<-1, b[13], a[4]>>, <<1, b[8], a[5]>>, <<1, b[0], a[6]>>, <<-1, b[10], a[7]>>,
                  <<-1, b[5], a[8]>>, <<-1, b[15], a[9]>>, <<1, b[7], a[10]>>, <<1, b[2], a[11]>>,
                  <<1, b[14], a[12]>>, <<-1, b[4], a[13]>>, <<-1, b[12], a[14]>>,
                  <<-1, b[9], a[15]>> >>),
    Polynomial(<< <<1, b[7], a[0]>>, <<1, b[4], a[1]>>, <<-1, b[12], a[2]>>, <<1, b[13], a[3]>>,
                  <<-1, b[1], a[4]>>, <<-1, b[9], a[5]>>, <<1, b[10], a[6]>>, <<1, b[0], a[7]>>,
                  <<-1, b[15], a[8]>>, <<1, b[5], a[9]>>, <<-1, b[6], a[10]>>, <<1, b[14], a[11]>>,
                  <<-1, b[2], a[12]>>, <<1, b[3], a[13]>>, <<-1, b[11], a[14]>>,
                  <<-1, b[8], a[15]>> >>),
    Polynomial(<< <<1, b[8], a[0]>>, <<1, b[3], a[2]>>, <<-1, b[2], a[3]>>, <<1, b[14], a[4]>>,
                  <<1, b[0], a[8]>>, <<1, b[10], a[9]>>, <<-1, b[9], a[10]>>, <<1, b[4], a[14]>> >>),
    Polynomial(<< <<1, b[9], a[0]>>, <<-1, b[4], a[2]>>, <<1, b[14], a[3]>>, <<1, b[2], a[4]>>,
                  <<-1, b[10], a[8]>>, <<1, b[0], a[9]>>, <<1, b[8], a[10]>>, <<1, b[3], a[14]>> >>),
    Polynomial(<< <<1, b[10], a[0]>>, <<1, b[14], a[2]>>, <<1, b[4], a[3]>>, <<-1, b[3], a[4]>>,
                  <<1, b[9], a[8]>>, <<-1, b[8], a[9]>>, <<1, b[0], a[10]>>, <<1, b[2], a[14]>> >>),
    Polynomial(<< <<1, b[11], a[0]>>, <<-1, b[8], a[1]>>, <<1, b[6], a[2]>>, <<-1, b[5], a[3]>>,
                  <<1, b[15], a[4]>>, <<-1, b[3], a[5]>>, <<1, b[2], a[6]>>, <<-1, b[14], a[7]>>,
                  <<-1, b[1], a[8]>>, <<1, b[13], a[9]>>, <<-1, b[12], a[10]>>, <<1, b[0], a[11]>>,
                  <<1, b[10], a[12]>>, <<-1, b[9], a[13]>>, <<1, b[7], a[14]>>,
                  <<-1, b[4], a[15]>> >>),
    Polynomial(<< <<1, b[12], a[0]>>, <<-1, b[9], a[1]>>, <<-1, b[7], a[2]>>, <<1, b[15], a[3]>>,
                  <<1, b[5], a[4]>>, <<1, b[4], a[5]>>, <<-1, b[14], a[6]>>, <<-1, b[2], a[7]>>,
                  <<-1, b[13], a[8]>>, <<-1, b[1], a[9]>>, <<1, b[11], a[10]>>,
                  <<-1, b[10], a[11]>>, <<1, b[0], a[12]>>, <<1, b[8], a[13]>>, <<1, b[6], a[14]>>,
                  <<-1, b[3], a[15]>> >>),
    Polynomial(<< <<1, b[13], a[0]>>, <<-1, b[10], a[1]>>, <<1, b[15], a[2]>>, <<1, b[7], a[3]>>,
                  <<-1, b[6], a[4]>>, <<-1, b[14], a[5]>>, <<-1, b[4], a[6]>>, <<1, b[3], a[7]>>,
                  <<1, b[12], a[8]>>, <<-1, b[11], a[9]>>, <<-1, b[1], a[10]>>, <<1, b[9], a[11]>>,
                  <<-1, b[8], a[12]>>, <<1, b[0], a[13]>>, <<1, b[5], a[14]>>,
                  <<-1, b[2], a[15]>> >>),
    Polynomial(<< <<1, b[14], a[0]>>, <<1, b[10], a[2]>>, <<1, b[9], a[3]>>, <<1, b[8], a[4]>>,
                  <<1, b[4], a[8]>>, <<1, b[3], a[9]>>, <<1, b[2], a[10]>>, <<1, b[0], a[14]>> >>),
    Polynomial(<< <<1, b[15], a[0]>>, <<1, b[14], a[1]>>, <<1, b[13], a[2]>>, <<1, b[12], a[3]>>,
                  <<1, b[11], a[4]>>, <<1, b[10], a[5]>>, <<1, b[9], a[6]>>, <<1, b[8], a[7]>>,
                  <<1, b[7], a[8]>>, <<1, b[6], a[9]>>, <<1, b[5], a[10]>>, <<-1, b[4], a[11]>>,
                  <<-1, b[3], a[12]>>, <<-1, b[2], a[13]>>, <<-1, b[1], a[14]>>,
                  <<1, b[0], a[15]>> >>)
  >>)

\* A motor or flat x written as a multivector: each coefficient in the slot
\* of enum Basis that has the name of its member.
OnBasis(x) ==
  [i \in 0..15 |->
     IF \E f \in DOMAIN x : Basis[f] = i THEN x[CHOOSE f \in DOMAIN x : Basis[f] = i] ELSE I(0)]

\* M * X * M.rev() for the multivectors M and X
Mvec3_sandwich(M, X) == Mvec3_mul(Mvec3_mul(M, X), Mvec3_rev(M))

(***************************************************************************)
(* kmath.hpp: _Quat and _DQuat                                             *)
(***************************************************************************)

\* _Quat(x, y, z, w): q = x . i + y . j + z . k + w
Quat(x, y, z, w) == [x |-> x, y |-> y, z |-> z, w |-> w]

\* _Quat::from_axis_angle
Quat_from_axis_angle(axis, angle) ==
  IF angle # I(0) /\ RSin(angle (/) I(2)) = I(0) /\ HasInfinite(axis)
  THEN Undefined
  ELSE Quat(RSin(angle (/) I(2)) (.) axis.x, RSin(angle (/) I(2)) (.) axis.y,
            RSin(angle (/) I(2)) (.) axis.z, RCos(angle (/) I(2)))

\* operator*(_Quat, _Quat)
Quat_mul(a, b) ==
  [x |-> Polynomial(<< <<1, a.w, b.x>>, <<1, a.x, b.w>>, <<1, a.y, b.z>>, <<-1, a.z, b.y>> >>),
   y |-> Polynomial(<< <<1, a.w, b.y>>, <<1, a.y, b.w>>, <<1, a.z, b.x>>, <<-1, a.x, b.z>> >>),
   z |-> Polynomial(<< <<1, a.w, b.z>>, <<1, a.z, b.w>>, <<1, a.x, b.y>>, <<-1, a.y, b.x>> >>),
   w |-> Polynomial(<< <<-1, a.x, b.x>>, <<-1, a.y, b.y>>, <<-1, a.z, b.z>>, <<1, a.w, b.w>> >>)]

\* _DQuat(yz, zx, xy, w, dx, dy, dz, dxyz)
DQuat(yz, zx, xy, w, dx, dy, dz, dxyz) ==
  [yz |-> yz, zx |-> zx, xy |-> xy, w |-> w, dx |-> dx, dy |-> dy, dz |-> dz, dxyz |-> dxyz]

\* _DQuat(const _Quat<T> &real, const _Quat<T> &dual)
DQuat_rd(real, dual) == DQuat(real.x, real.y, real.z, real.w, dual.x, dual.y, dual.z, dual.w)

\* operator*(_DQuat, _DQuat)
DQuat_mul(a, b) ==
  [yz |-> Polynomial(<< <<1, a.w, b.yz>>, <<1, a.yz, b.w>>, <<1, a.zx, b.xy>>,
                        <<-1, a.xy, b.zx>> >>),
   zx |-> Polynomial(<< <<1, a.w, b.zx>>, <<1, a.zx, b.w>>, <<1, a.xy, b.yz>>,
                        <<-1, a.yz, b.xy>> >>),
   xy |-> Polynomial(<< <<1, a.w, b.xy>>, <<1, a.xy, b.w>>, <<1, a.yz, b.zx>>,
                        <<-1, a.zx, b.yz>> >>),
   w |-> Polynomial(<< <<-1, a.yz, b.yz>>, <<-1, a.zx, b.zx>>, <<-1, a.xy, b.xy>>,
                       <<1, a.w, b.w>> >>),
   dx |-> Polynomial(<< <<1, a.dxyz, b.yz>>, <<1, a.dx, b.w>>, <<1, a.dy, b.xy>>,
                        <<-1, a.dz, b.zx>>, <<1, a.w, b.dx>>, <<1, a.yz, b.dxyz>>,
                        <<1, a.zx, b.dz>>, <<-1, a.xy, b.dy>> >>),
   dy |-> Polynomial(<< <<1, a.dxyz, b.zx>>, <<1, a.dy, b.w>>, <<1, a.dz, b.yz>>,
                        <<-1, a.dx, b.xy>>, <<1, a.w, b.dy>>, <<1, a.zx, b.dxyz>>,
                        <<1, a.xy, b.dx>>, <<-1, a.yz, b.dz>> >>),
   dz |-> Polynomial(<< <<1, a.dxyz, b.xy>>, <<1, a.dz, b.w>>, <<1, a.dx, b.zx>>,
                        <<-1, a.dy, b.yz>>, <<1, a.w, b.dz>>, <<1, a.xy, b.dxyz>>,
                        <<1, a.yz, b.dy>>, <<-1, a.zx, b.dx>> >>),
   dxyz |-> Polynomial(<< <<-1, a.dx, b.yz>>, <<-1, a.dy, b.zx>>, <<-1, a.dz, b.xy>>,
                          <<1, a.dxyz, b.w>>, <<-1, a.yz, b.dx>>,
                          <<-1, a.zx, b.dy>>, <<-1, a.xy, b.dz>>,
                          <<1, a.w, b.dxyz>> >>)]

\* _DQuat::dquat_conjugate
dquat_conjugate(q) ==
  DQuat(RNeg(q.yz), RNeg(q.zx), RNeg(q.xy), q.w, q.dx, q.dy, q.dz, RNeg(q.dxyz))

\* _DQuat::unit_conjugate: this * q * dquat_conjugate()
unit_conjugate(this, q) == DQuat_mul(DQuat_mul(this, q), dquat_conjugate(this))

\* _DQuat::from_point
DQuat_from_point(p) == DQuat(I(0), I(0), I(0), I(1), p.x, p.y, p.z, I(0))

\* _DQuat::get_point
DQuat_get_point(q) == Vec3(q.dx, q.dy, q.dz)

\* _DQuat::from_axis_angle_translation; its local trans is the quaternion
\* (translation / 2, 0)
DQuat_from_axis_angle_translation(axis, angle, translation) ==
  IF HalfAngleResidueTimesInfinity(axis, angle, translation)
  THEN Undefined
  ELSE DQuat_rd(Quat_from_axis_angle(axis, angle),
                Quat_mul(Quat(Q(1, 2) (.) translation.x, Q(1, 2) (.) translation.y,
                              Q(1, 2) (.) translation.z, I(0)),
                         Quat_from_axis_angle(axis, angle)))

(***************************************************************************)
(* Inputs.  The calls are made on unit rotors with rational coefficients,  *)
(* integer translations and points, and the motors built from them.        *)
(***************************************************************************)

NumRotors == 8
NumTranslations == 4
NumPoints == 3
NumParams == 3
NumAngles == 3
NumDistances == 3
NumMvecs == 3
MaxGrade == 4
NumFlats == 2
NumWeights == 2

\* <<s, e23, e31, e12, d>> stands for the rotor (s, e23, e31, e12) / d, of length 1.
RotorTable ==
  << <<1, 0, 0, 0, 1>>,      <<0, 0, 1, 0, 1>>,      <<1, 1, 1, 1, 2>>,
     <<7, 24, 0, 0, 25>>,    <<-7, 0, 24, 0, 25>>,   <<-1, 0, 0, 0, 1>>,
     <<0, 1, 0, 0, 1>>,      <<3, 4, 0, 0, 5>>,      <<-1, 1, -1, 1, 2>>,
     <<0, 0, 0, 1, 1>>,      <<1, 2, 2, 0, 3>>,      <<0, 3, 4, 0, 5>> >>

VectorTable ==
  << <<0, 0, 0>>, <<4, 0, 0>>, <<1, -2, 3>>, <<0, 1, 0>>,
     <<-1, 0, 2>>, <<2, 2, -1>>, <<0, 0, -3>>, <<5, 1, 1>> >>

PointTable ==
  << <<0, 0, 0>>, <<1, 2, 3>>, <<-1, 0, 2>>, <<0, -3, 1>>, <<2, 2, 2>>, <<3, 0, -1>> >>

ParamTable == << I(0), Q(1, 2), I(1), Q(1, 4), Q(3, 4), Q(1, 3) >>

Min(a, b) == IF a < b THEN a ELSE b

First(table, n) == {table[i] : i \in 1..Min(n, Len(table))}

UnitRotors ==
  {Rotor3(Q(q[1], q[5]), Q(q[2], q[5]), Q(q[3], q[5]), Q(q[4], q[5])) :
     q \in First(RotorTable, NumRotors)}

Translations == {Vec3(I(v[1]), I(v[2]), I(v[3])) : v \in First(VectorTable, NumTranslations)}

Points == {Vec3(I(v[1]), I(v[2]), I(v[3])) : v \in First(PointTable, NumPoints)}

Params == First(ParamTable, NumParams)

\* Angles whose half has an exact cosine and sine: the half of a quarter turn
\* has neither of them 0.
AngleTable == << PI, I(0), PI (/) I(2), RNeg(PI), RNeg(PI (/) I(2)), I(2) (.) PI >>

Angles == First(AngleTable, NumAngles)

\* The valid unit motors: a unit rotor followed by a translation.
UnitMotors == {from_rotor_translation(r, t) : r \in UnitRotors, t \in Translations}

DistanceTable == << 5, -2, 0, 1, 3, -4 >>

\* Signed distances of planes from the origin.
Distances == {I(d) : d \in First(DistanceTable, NumDistances)}

\* The normal of the plane through three points: (p2 - p1) x (p3 - p1).
NormalThrough(p1, p2, p3) ==
  Vec3(Polynomial(<< <<1, p2.y (-) p1.y, p3.z (-) p1.z>>, <<-1, p2.z (-) p1.z, p3.y (-) p1.y>> >>),
       Polynomial(<< <<1, p2.z (-) p1.z, p3.x (-) p1.x>>, <<-1, p2.x (-) p1.x, p3.z (-) p1.z>> >>),
       Polynomial(<< <<1, p2.x (-) p1.x, p3.y (-) p1.y>>, <<-1, p2.y (-) p1.y, p3.x (-) p1.x>> >>))

NonCollinear(p1, p2, p3) == NormalThrough(p1, p2, p3) # Vec3_ZERO

\* The coefficients data[0], ..., data[15] of multivectors: one with all its
\* coefficients different, the pseudoscalar, a point, a mixed one.
MvecTable ==
  << <<1, 2, 3, 4, 5, 6, 7, 8, 9, 10, 11, 12, 13, 14, 15, 16>>,
     <<0, 0, 0, 0, 0, 0, 0, 0, 0, 0, 0, 0, 0, 0, 0, 1>>,
     <<0, 0, 0, 0, 0, 0, 0, 0, 0, 0, 0, 3, 2, 1, 1, 0>>,
     <<2, -1, 0, 3, 0, -2, 0, 1, 0, 0, 4, 0, -3, 0, 1, -5>>,
     <<0, 1, -2, 3, 5, 0, 0, 0, 0, 0, 0, 0, 0, 0, 0, 0>> >>

Mvecs == {Mvec3([i \in 1..16 |-> I(v[i])]) : v \in First(MvecTable, NumMvecs)}

Grades == 0..MaxGrade

\* <<e1, e2, e3, e0>>: planes with a non-zero normal.
PlaneTable == << <<1, 2, -2, 4>>, <<0, 3, 4, -1>>, <<0, 0, 1, 0>>, <<2, 0, 0, 3>> >>

\* <<e23, e31, e12, e01, e02, e03>>: lines with a non-zero direction
\* orthogonal to the moment.
LineTable ==
  << <<2, -1, 2, 1, 4, 1>>, <<0, 0, 1, 1, 2, 0>>, <<1, 0, 0, 0, 0, 0>>, <<0, 3, 4, 5, 0, 0>> >>

\* <<e032, e013, e021, e123>>: points of non-zero weight e123.
WeightedPointTable == << <<2, 4, 6, 2>>, <<-1, 0, 2, 1>>, <<0, 0, 0, 1>>, <<3, -3, 0, -3>> >>

Planes == {Plane3(I(v[1]), I(v[2]), I(v[3]), I(v[4])) : v \in First(PlaneTable, NumFlats)}

Lines ==
  {Line3(I(v[1]), I(v[2]), I(v[3]), I(v[4]), I(v[5]), I(v[6])) : v \in First(LineTable, NumFlats)}

WeightedPoints ==
  {Point3(I(v[1]), I(v[2]), I(v[3]), I(v[4])) : v \in First(WeightedPointTable, NumFlats)}

Flats == Planes \cup Lines \cup WeightedPoints

\* Weights of the finite part of a flat: zero, between KMATH_EPSILON2 and
\* KMATH_EPSILON when squared, and larger ones.
WeightTable == << Q(1, 40000), I(0), Q(1, 1000), I(-2) >>

Weights == First(WeightTable, NumWeights)

\* Planes, lines and points whose ideal part is not zero and whose finite
\* part has the weight w.
OfWeight(w) ==
  {Plane3(w, I(0), I(0), I(2)), Plane3(I(0), w, I(0), I(-3)),
   Line3(I(0), w, I(0), I(3), I(0), I(-4)), Line3(I(0), I(0), w, I(3), I(4), I(0)),
   Point3(I(1), I(2), I(-2), w), Point3(I(0), I(-1), I(0), w)}

ThinFlats == UNION {OfWeight(w) : w \in Weights}

\* The value of res before the call returns.
NoResult == [none |-> TRUE]

(***************************************************************************)
(* The calls.  A behaviour is one call: the arguments are chosen           *)
(* in the initial state and the call's action stores what it returns.      *)
(***************************************************************************)

ArgsRoundTrip ==
  {[fn |-> "from_rotor_translation", r |-> r, t |-> t] : r \in UnitRotors, t \in Translations}

ArgsCompose ==
  {[fn |-> "transform_point", m1 |-> m1, m2 |-> m2, p |-> p] :
     m1 \in UnitMotors, m2 \in UnitMotors, p \in Points}

\* sqrt(m) takes the square root of 2 (1 + m.s) or of 2 (1 - m.s).
SqrtRepresentable(m) ==
  HasSqrt(IF RGeq(m.s, I(0)) THEN I(2) (.) (I(1) (+) m.s) ELSE I(2) (.) (I(1) (-) m.s))

ArgsSqrt == {[fn |-> "sqrt", m |-> m] : m \in {x \in UnitMotors : SqrtRepresentable(x)}}

\* log(m) takes the square root of the length of (e23, e31, e12) and an arc
\* tangent, exp the cosine and sine of the result: a unit motor with
\* m.s = 0 or with no rotation has them all.
ExpLogRepresentable(m) ==
  LET r2 == length_squared_Vec3(Vec3(m.e23, m.e31, m.e12))
  IN  r2 = I(0) \/ (r2 = I(1) /\ m.s = I(0))

ArgsExpLog ==
  {[fn |-> "log", m |-> m, p |-> p] :
     m \in {x \in UnitMotors : ExpLogRepresentable(x)}, p \in Points}

\* A unit rotor whose product with its reverse has a scalar part above 1 in
\* the arithmetic of double.
LerpRotors ==
  UnitRotors \cup {Rotor3(Q(1, 5), Q(2, 5), Q(2, 5), Q(4, 5))}

LerpMotors == {from_rotor_translation(r, t) : r \in LerpRotors, t \in Translations}

ArgsLerp ==
  {[fn |-> f, a |-> m, b |-> m, t |-> t, T |-> T] :
     f \in {"seplerp", "sclerp", "lielerp"}, m \in LerpMotors, t \in Params,
     T \in FloatTypes}

ArgsAxisAngle ==
  {[fn |-> "from_axis_angle_translation", axis |-> axis, angle |-> angle,
    translation |-> t, p |-> p] :
     axis \in {Vec3_X, Vec3_Y, Vec3_Z}, angle \in Angles, t \in Translations, p \in Points}

\* The planes a = plane(normal, distance) and b = plane(direction, delta).
ArgsMeet ==
  {[fn |-> "meet", normal |-> n, distance |-> d, direction |-> u, delta |-> e] :
     n \in Translations, d \in Distances, u \in {Vec3_ZERO, Vec3_X}, e \in Distances}

ArgsReverse == {[fn |-> "reverse", r |-> r] : r \in UnitRotors}

ArgsJoin == {[fn |-> "join", p1 |-> p1, p2 |-> p2, p3 |-> p3] : p1 \in Points, p2 \in Points, p3 \in Points}

ArgsGrade == {[fn |-> "grade", a |-> a, g |-> g] : a \in Mvecs, g \in Grades}

\* m = from_rotor_translation(r, t), then get_rotor(m) and get_translation(m).
RoundTrip ==
  /\ pc = "call"
  /\ args.fn = "from_rotor_translation"
  /\ \E m \in {from_rotor_translation(args.r, args.t)} :
       \E read \in MotorReads :
         res' = [m |-> m, read |-> read, rotor |-> get_rotor(m, read),
                 translation |-> get_translation(m, read)]
  /\ pc' = "done"
  /\ UNCHANGED args

\* transform_point by m1 then by m2, and transform_point by the product m2 * m1.
Compose ==
  /\ pc = "call"
  /\ args.fn = "transform_point"
  /\ \E product \in {Motor3_mul(args.m2, args.m1)} :
       res' = [twice |-> transform_point(transform_point(args.p, args.m1), args.m2),
               product |-> product,
               once |-> transform_point(args.p, product)]
  /\ pc' = "done"
  /\ UNCHANGED args

\* sqrt(m) * sqrt(m)
SqrtSquare ==
  /\ pc = "call"
  /\ args.fn = "sqrt"
  /\ \E root \in {sqrt_Motor3(args.m)} :
       res' = [root |-> root, square |-> Motor3_mul(root, root)]
  /\ pc' = "done"
  /\ UNCHANGED args

\* transform_point(p, exp(log(m))) and transform_point(p, m)
ExpLog ==
  /\ pc = "call"
  /\ args.fn = "log"
  /\ \E line \in {log_Motor3(args.m)} :
       \E motor \in {exp_Line3(line)} :
         res' = [line |-> line, motor |-> motor,
                 moved |-> transform_point(args.p, motor),
                 expected |-> transform_point(args.p, args.m)]
  /\ pc' = "done"
  /\ UNCHANGED args

Seplerp ==
  /\ pc = "call"
  /\ args.fn = "seplerp"
  /\ \E read \in MotorReads :
       res' = [motor |-> seplerp(args.a, args.b, args.t, read), read |-> read]
  /\ pc' = "done"
  /\ UNCHANGED args

Sclerp ==
  /\ pc = "call"
  /\ args.fn = "sclerp"
  /\ \E read \in sclerp_reads(args.a, args.b, args.T) :
       res' = [motor |-> sclerp(args.a, args.b, args.t, read, args.T), read |-> read]
  /\ pc' = "done"
  /\ UNCHANGED args

Lielerp ==
  /\ pc = "call"
  /\ args.fn = "lielerp"
  /\ res' = [motor |-> lielerp(args.a, args.b, args.t)]
  /\ pc' = "done"
  /\ UNCHANGED args

\* m = from_axis_angle_translation(axis, angle, translation), then transform_point(p, m).
AxisAngleTranslation ==
  /\ pc = "call"
  /\ args.fn = "from_axis_angle_translation"
  /\ \E m \in {from_axis_angle_translation(args.axis, args.angle, args.translation)} :
       res' = [m |-> m, moved |-> transform_point(args.p, m)]
  /\ pc' = "done"
  /\ UNCHANGED args

\* meet(a, b) of the planes a = plane(normal, distance), b = plane(direction, delta)
MeetPlanes ==
  /\ pc = "call"
  /\ args.fn = "meet"
  /\ res' = [line |-> meet_Plane3(plane(args.normal, args.distance),
                                  plane(args.direction, args.delta))]
  /\ pc' = "done"
  /\ UNCHANGED args

\* r * reverse(r), reverse(r) * r and length(r)
ReverseRotor ==
  /\ pc = "call"
  /\ args.fn = "reverse"
  /\ res' = [right |-> Rotor3_mul(args.r, reverse_Rotor3(args.r)),
             left |-> Rotor3_mul(reverse_Rotor3(args.r), args.r),
             length |-> length_Rotor3(args.r)]
  /\ pc' = "done"
  /\ UNCHANGED args

\* The multivector of a line, coefficient by coefficient.
AsMvec3(l) == line_plucker(l.e23, l.e31, l.e12, l.e01, l.e02, l.e03)

\* The lines join(p1, p2) and join(p2, p3), as flats and as the regressive
\* products of the multivectors of the points, and the outer product of the
\* two lines.
MeetOfJoins ==
  /\ pc = "call"
  /\ args.fn = "join"
  /\ \E l1 \in {join_Point3(point(args.p1), point(args.p2))} :
       \E l2 \in {join_Point3(point(args.p2), point(args.p3))} :
         \E j1 \in {Mvec3_regressive(Mvec3_point(args.p1.x, args.p1.y, args.p1.z),
                                     Mvec3_point(args.p2.x, args.p2.y, args.p2.z))} :
           \E j2 \in {Mvec3_regressive(Mvec3_point(args.p2.x, args.p2.y, args.p2.z),
                                       Mvec3_point(args.p3.x, args.p3.y, args.p3.z))} :
             res' = [l1 |-> l1, l2 |-> l2, j1 |-> j1, j2 |-> j2,
                     meet |-> Mvec3_outer(AsMvec3(l1), AsMvec3(l2)),
                     meet_of_products |-> Mvec3_outer(j1, j2)]
  /\ pc' = "done"
  /\ UNCHANGED args

\* a.grade(g)
Grade ==
  /\ pc = "call"
  /\ args.fn = "grade"
  /\ res' = [graded |-> grade(args.a, args.g)]
  /\ pc' = "done"
  /\ UNCHANGED args

\* The pairs of structs project and fast_project are overloaded on.
ArgsProject ==
  {[fn |-> "project", u |-> a, v |-> b] : a \in Planes \cup Lines, b \in WeightedPoints}
    \cup {[fn |-> "project", u |-> a, v |-> b] : a \in WeightedPoints, b \in Planes \cup Lines}

\* The pair of structs on which reject and fast_reject are well-typed.
ArgsReject == {[fn |-> "reject", u |-> a, v |-> b] : a \in Planes, b \in WeightedPoints}

ArgsReflect == {[fn |-> "reflect", u |-> a, v |-> b] : a \in Flats, b \in Flats}

\* fast_project(a, b) and project(a, b).
Project ==
  /\ pc = "call"
  /\ args.fn = "project"
  /\ res' = [fast |-> fast_project(args.u, args.v), scaled |-> project(args.u, args.v)]
  /\ pc' = "done"
  /\ UNCHANGED args

\* fast_reject(a, b) and reject(a, b).
Reject ==
  /\ pc = "call"
  /\ args.fn = "reject"
  /\ res' = [fast |-> fast_reject(args.u, args.v), scaled |-> reject(args.u, args.v)]
  /\ pc' = "done"
  /\ UNCHANGED args

\* fast_reflect(a, b) and reflect(a, b).
Reflect ==
  /\ pc = "call"
  /\ args.fn = "reflect"
  /\ res' = [fast |-> fast_reflect(args.u, args.v), scaled |-> reflect(args.u, args.v)]
  /\ pc' = "done"
  /\ UNCHANGED args

ArgsNormalized ==
  {[fn |-> "normalized", x |-> x] :
     x \in {f \in Flats \cup ThinFlats : FlatType(f) # "Point3"}}

ArgsIsVanishing == {[fn |-> "is_vanishing", x |-> x] : x \in Flats \cup ThinFlats}

\* normalized(x)
Normalized ==
  /\ pc = "call"
  /\ args.fn = "normalized"
  /\ res' = [normalized |-> normalized(args.x)]
  /\ pc' = "done"
  /\ UNCHANGED args

\* is_vanishing(x)
IsVanishing ==
  /\ pc = "call"
  /\ args.fn = "is_vanishing"
  /\ res' = [vanishing |-> is_vanishing(args.x)]
  /\ pc' = "done"
  /\ UNCHANGED args

ArgsTransform == {[fn |-> "transform", r |-> r, w |-> w] : r \in UnitRotors, w \in Translations}

\* transform(X, r), transform(Y, r), transform(Z, r), the frame of r and
\* transform(w, IDENTITY).
TransformBasis ==
  /\ pc = "call"
  /\ args.fn = "transform"
  /\ res' = [x |-> transform_Vec3(Vec3_X, args.r),
             y |-> transform_Vec3(Vec3_Y, args.r),
             z |-> transform_Vec3(Vec3_Z, args.r),
             x_basis |-> get_x_basis_vector(args.r),
             y_basis |-> get_y_basis_vector(args.r),
             z_basis |-> get_z_basis_vector(args.r),
             identity |-> transform_Vec3(args.w, Rotor3_IDENTITY)]
  /\ pc' = "done"
  /\ UNCHANGED args

\* sclerp and lielerp of the motors a and b take the arc cosine, square roots
\* and the cosine and sine of t times the angle of delta = reverse(a) * b:
\* the model has them all when delta is a translation of representable
\* length (delta.s = 1), when delta.s = -1 and t is a multiple of 1/2, and
\* when delta is a half turn (delta.s = 0) and t is 0 or 1.
LerpRepresentableOf(delta, r2, t) ==
  \/ r2 = I(0) /\ delta.s = I(1) /\ HasSqrt(length_squared_Vec3(get_translation(delta, StoredMotor)))
  \/ r2 = I(0) /\ delta.s = I(-1) /\ t \in {I(0), I(1)}
  \/ r2 = I(1) /\ delta.s = I(0) /\ t \in {I(0), I(1)}

\* The same, r2 being the squared length of the bivector part of delta.
LerpRepresentableDelta(delta, t) ==
  LerpRepresentableOf(delta,
                      length_squared_Rotor3(get_real_part(delta, StoredMotor))
                        (-) (delta.s (.) delta.s),
                      t)

\* The pairs of unit motors a, b, each with delta = reverse(a) * b.
LerpDeltas ==
  {[a |-> a, b |-> b, delta |-> Motor3_mul(reverse_Motor3(a), b)] :
     a \in UnitMotors, b \in UnitMotors}

\* The motors a, b and parameters t of ts that sclerp and lielerp take.
LerpCalls(ts) ==
  {c \in {[a |-> d.a, b |-> d.b, t |-> t, delta |-> d.delta] : d \in LerpDeltas, t \in ts} :
     LerpRepresentableDelta(c.delta, c.t)}

ArgsLerpBoth ==
  {[fn |-> "sclerp_lielerp", a |-> c.a, b |-> c.b, t |-> c.t, p |-> p] :
     c \in LerpCalls(Params), p \in Points}

\* sclerp(a, b, t) and lielerp(a, b, t), and where each moves the point p.
LerpBoth ==
  /\ pc = "call"
  /\ args.fn = "sclerp_lielerp"
  /\ \E l \in {lielerp(args.a, args.b, args.t)} :
       \E lm \in {transform_point(args.p, l)},
          angle \in {sclerp_angle(args.a, args.b, T) : T \in FloatTypes} :
         \E read \in sclerp_reads_at(angle) :
           \E s \in {sclerp_at(args.a, args.b, args.t, read, angle)} :
             res' = [sclerp |-> s, lielerp |-> l, read |-> read,
                     sclerp_moved |-> transform_point(args.p, s),
                     lielerp_moved |-> lm]
  /\ pc' = "done"
  /\ UNCHANGED args

\* to_screw_coordinates takes an arc cosine of m.s, the sine of half the angle
\* and, for a motor with no rotation, the length of its translation.
ScrewRepresentable(m) ==
  \/ m.s \in {I(0), I(-1)}
  \/ m.s = I(1) /\ HasSqrt(length_squared_Vec3(get_translation(m, StoredMotor)))

\* The unit motors, and a motor of angle zero that is not of unit magnitude.
ArgsScrew ==
  {[fn |-> "to_screw", m |-> m] :
     m \in {x \in UnitMotors : ScrewRepresentable(x)}
            \cup {Motor3(I(1), I(0), I(0), I(1), I(2), I(0), I(0), I(0))}}

\* to_screw_coordinates(m, direction, moment, angle, translation), then
\* from_screw_coordinates on the four values it wrote
ScrewRoundTrip ==
  /\ pc = "call"
  /\ args.fn = "to_screw"
  /\ \E read \in to_screw_reads(args.m) :
       \E sc \in {to_screw_coordinates(args.m, read)} :
         res' = [screw |-> sc, read |-> read,
                 back |-> from_screw_coordinates(sc.direction, sc.moment, sc.angle, sc.translation)]
  /\ pc' = "done"
  /\ UNCHANGED args

ArgsFastSqrt == {[fn |-> "fast_sqrt", m |-> m] : m \in {x \in UnitMotors : SqrtRepresentable(x)}}

\* fast_sqrt(m) and sqrt(m) of one motor
FastSqrt ==
  /\ pc = "call"
  /\ args.fn = "fast_sqrt"
  /\ res' = [fast |-> fast_sqrt(args.m), root |-> sqrt_Motor3(args.m)]
  /\ pc' = "done"
  /\ UNCHANGED args

ArgsRegressive == {[fn |-> "regressive", a |-> a, b |-> b] : a \in Mvecs, b \in Mvecs}

\* a | b, and (a.hdual() & b.hdual()).hdual()
Regressive ==
  /\ pc = "call"
  /\ args.fn = "regressive"
  /\ res' = [regressive |-> Mvec3_regressive(args.a, args.b),
             dual_outer |-> hdual(Mvec3_outer(hdual(args.a), hdual(args.b)))]
  /\ pc' = "done"
  /\ UNCHANGED args

ArgsDQuat ==
  {[fn |-> "unit_conjugate", axis |-> axis, angle |-> angle, translation |-> t, p |-> p] :
     axis \in {Vec3_X, Vec3_Y, Vec3_Z}, angle \in Angles, t \in Translations, p \in Points}

\* The point p moved by the dual quaternion and by the motor built from one
\* axis, angle and translation
DQuatTransform ==
  /\ pc = "call"
  /\ args.fn = "unit_conjugate"
  /\ \E q \in {DQuat_from_axis_angle_translation(args.axis, args.angle, args.translation)} :
       res' = [q |-> q,
               dquat_moved |-> DQuat_get_point(unit_conjugate(q, DQuat_from_point(args.p))),
               motor_moved |-> transform_point(args.p,
                                 from_axis_angle_translation(args.axis, args.angle,
                                                             args.translation))]
  /\ pc' = "done"
  /\ UNCHANGED args

\* The third plane of a three-plane meet is drawn from one more plane than the
\* first two, so that three different planes meet.
ThirdPlanes ==
  {Plane3(I(v[1]), I(v[2]), I(v[3]), I(v[4])) : v \in First(PlaneTable, NumFlats + 1)}

ArgsMeet3 == {[fn |-> "meet3", u |-> a, v |-> b, x |-> c] : a \in Planes, b \in Planes, c \in ThirdPlanes}

\* meet(a, b, c) of three planes
Meet3 ==
  /\ pc = "call"
  /\ args.fn = "meet3"
  /\ res' = [point |-> meet3(args.u, args.v, args.x)]
  /\ pc' = "done"
  /\ UNCHANGED args

ArgsTransformFlat == {[fn |-> "transform_flat", m |-> m, x |-> x] : m \in UnitMotors, x \in Flats}

\* transform(x, m) of a plane, line or point x, and the sandwich product of
\* the multivectors of m and x
TransformFlat ==
  /\ pc = "call"
  /\ args.fn = "transform_flat"
  /\ res' = [transformed |-> transform(args.x, args.m),
             sandwich |-> Mvec3_sandwich(OnBasis(args.m), OnBasis(args.x))]
  /\ pc' = "done"
  /\ UNCHANGED args

NumScalars == 4

ScalarTable == << I(-2), Q(1, 200000), Q(-1, 200000), I(3), I(0), Q(1, 100000), Q(-1, 100000) >>

Scalars == First(ScalarTable, NumScalars)

ArgsIsApproxZero == {[fn |-> "is_approx_zero", scalar |-> x] : x \in Scalars}

\* is_approx_zero of a real scalar, in utils.hpp, in kmath.hpp and in kmath.cpp
IsApproxZero ==
  /\ pc = "call"
  /\ args.fn = "is_approx_zero"
  /\ res' = [utils |-> is_approx_zero(args.scalar),
             hpp |-> is_approx_zero_hpp(args.scalar),
             cpp |-> is_approx_zero_cpp(args.scalar)]
  /\ pc' = "done"
  /\ UNCHANGED args

\* The moments perpendicular to a direction.
PerpendicularTo(direction) ==
  {mo \in Translations :
     Polynomial(<< <<1, mo.x, direction.x>>, <<1, mo.y, direction.y>>,
                   <<1, mo.z, direction.z>> >>) = I(0)}

\* The calls of the five factories, on a unit rotor, a unit axis or a unit
\* direction with a moment perpendicular to it.
ArgsFactory ==
  {[fn |-> "factory", make |-> "from_translation", translation |-> t] : t \in Translations}
  \cup {[fn |-> "factory", make |-> "from_rotor", r |-> r] : r \in UnitRotors}
  \cup {[fn |-> "factory", make |-> "from_rotor_translation", r |-> r, translation |-> t] :
          r \in UnitRotors, t \in Translations}
  \cup {[fn |-> "factory", make |-> "from_axis_angle_translation", axis |-> axis,
         angle |-> angle, translation |-> t] :
          axis \in {Vec3_X, Vec3_Y, Vec3_Z}, angle \in Angles, t \in Translations}
  \cup UNION {{[fn |-> "factory", make |-> "from_screw_coordinates", axis |-> direction,
                moment |-> mo, angle |-> angle, distance |-> d] :
                 mo \in PerpendicularTo(direction), angle \in Angles, d \in Distances} :
              direction \in {Vec3_X, Vec3_Y, Vec3_Z}}

\* The motor that the factory named in the call returns.
Made(x) ==
  CASE x.make = "from_translation" -> from_translation(x.translation)
    [] x.make = "from_rotor" -> from_rotor(x.r)
    [] x.make = "from_rotor_translation" -> from_rotor_translation(x.r, x.translation)
    [] x.make = "from_axis_angle_translation" ->
         from_axis_angle_translation(x.axis, x.angle, x.translation)
    [] x.make = "from_screw_coordinates" ->
         from_screw_coordinates(x.axis, x.moment, x.angle, x.distance)

\* m = one of the factories of _Motor3, then m * reverse(m)
Factory ==
  /\ pc = "call"
  /\ args.fn = "factory"
  /\ \E m \in {Made(args)} : res' = [m |-> m, product |-> Motor3_mul(m, reverse_Motor3(m))]
  /\ pc' = "done"
  /\ UNCHANGED args

ArgsEndpoints ==
  {[fn |-> "endpoints", a |-> c.a, b |-> c.b, t |-> c.t, p |-> p] :
     c \in LerpCalls({I(0), I(1)}), p \in Points}

\* seplerp, sclerp and lielerp of a and b at an endpoint t, and where each
\* result and the motor b move the point p
Endpoints ==
  /\ pc = "call"
  /\ args.fn = "endpoints"
  /\ \E li \in {lielerp(args.a, args.b, args.t)} :
       \E lm \in {transform_point(args.p, li)}, bm \in {transform_point(args.p, args.b)},
          read \in MotorReads,
          angle \in {sclerp_angle(args.a, args.b, T) : T \in FloatTypes} :
         \E se \in {seplerp(args.a, args.b, args.t, read)} :
           \E sc \in {sclerp_at(args.a, args.b, args.t, read, angle)} :
             res' = [seplerp |-> se, sclerp |-> sc, lielerp |-> li, read |-> read,
                     seplerp_moved |-> transform_point(args.p, se),
                     sclerp_moved |-> transform_point(args.p, sc),
                     lielerp_moved |-> lm,
                     b_moved |-> bm]
  /\ pc' = "done"
  /\ UNCHANGED args

ArgsOrigin ==
  {[fn |-> "get_translation", r |-> r, t |-> t] : r \in UnitRotors, t \in Translations}

\* get_translation(m) and transform_point((0,0,0), m) for
\* m = from_rotor_translation(r, t).
Origin ==
  /\ pc = "call"
  /\ args.fn = "get_translation"
  /\ \E m \in {from_rotor_translation(args.r, args.t)} :
       \E read \in MotorReads :
         res' = [m |-> m, read |-> read, translation |-> get_translation(m, read),
                 moved |-> transform_point(Vec3_ZERO, m)]
  /\ pc' = "done"
  /\ UNCHANGED args

\* The second factor of a product is a unit rotor or one that is not unit.
ArgsEmbed ==
  {[fn |-> "from_rotor", ra |-> a, rb |-> b, w |-> w] :
     a \in UnitRotors, b \in UnitRotors \cup {Rotor3(I(2), I(0), I(-1), I(3))},
     w \in Translations}

\* from_rotor(ra * rb), from_rotor(ra) * from_rotor(rb) and
\* from_rotor(rb) * from_rotor(ra); transform(w, ra) and
\* transform_direction(w, from_rotor(ra)).
Embed ==
  /\ pc = "call"
  /\ args.fn = "from_rotor"
  /\ res' = [of_product |-> from_rotor(Rotor3_mul(args.ra, args.rb)),
             product |-> Motor3_mul(from_rotor(args.ra), from_rotor(args.rb)),
             exchanged |-> Motor3_mul(from_rotor(args.rb), from_rotor(args.ra)),
             transformed |-> transform_Vec3(args.w, args.ra),
             direction |-> transform_direction(args.w, from_rotor(args.ra))]
  /\ pc' = "done"
  /\ UNCHANGED args

ArgsReflectTwice == {[fn |-> "reflect_twice", u |-> a, v |-> b] : a \in Flats, b \in Flats}

\* reflect(reflect(a, b), b) and fast_reflect(fast_reflect(a, b), b).
ReflectTwice ==
  /\ pc = "call"
  /\ args.fn = "reflect_twice"
  /\ res' = [once |-> reflect(args.u, args.v),
             twice |-> reflect(reflect(args.u, args.v), args.v),
             fast_twice |-> fast_reflect(fast_reflect(args.u, args.v), args.v)]
  /\ pc' = "done"
  /\ UNCHANGED args

\* Rotors of length 1 and of length 2.
ArgsInverse ==
  {[fn |-> "inverse", r |-> r] :
     r \in UnitRotors \cup {Rotor3_scale(I(2), q) : q \in UnitRotors}}

\* inverse(r), r * inverse(r) and inverse(r) * r.
Inverse ==
  /\ pc = "call"
  /\ args.fn = "inverse"
  /\ res' = [inverse |-> inverse_Rotor3(args.r),
             right |-> Rotor3_mul(args.r, inverse_Rotor3(args.r)),
             left |-> Rotor3_mul(inverse_Rotor3(args.r), args.r)]
  /\ pc' = "done"
  /\ UNCHANGED args

\* Points of weight 1 on the planes of PlaneTable, in the order of the table,
\* and a point of weight 2 on the first plane.
PointOnPlaneTable ==
  << <<0, 0, 2, 1>>, <<0, -1, 1, 1>>, <<5, -3, 0, 1>>, <<-3, 7, 1, 2>>, <<-8, 0, 0, 2>> >>

\* Points on one of the planes, and the weighted points, which are on none,
\* as _Point3<T> and _Plane3<T>.
ArgsIsOn ==
  {[fn |-> "is_on", u |-> X, v |-> p, T |-> T] :
     X \in WeightedPoints \cup
             {Point3(I(q[1]), I(q[2]), I(q[3]), I(q[4])) : q \in First(PointOnPlaneTable, NumFlats + 1)},
     p \in Planes, T \in FloatTypes}

\* is_on(X, p) and inner(p, X).
IsOn ==
  /\ pc = "call"
  /\ args.fn = "is_on"
  /\ \E read \in AliasedReads :
       res' = [is_on |-> is_on(args.u, args.v, args.T, read), read |-> read,
               inner |-> inner(args.v, args.u)]
  /\ pc' = "done"
  /\ UNCHANGED args

(***************************************************************************)
(* Three specifications, each the calls of one part of the library: Spec   *)
(* the rotors and the motors, LerpSpec the interpolations of motors, and   *)
(* FlatSpec the flat primitives and the multivector.                       *)
(***************************************************************************)

Init ==
  /\ pc = "call"
  /\ res = NoResult
  /\ args \in ArgsRoundTrip \cup ArgsCompose \cup ArgsSqrt \cup ArgsExpLog
                \cup ArgsAxisAngle \cup ArgsReverse \cup ArgsTransform
                \cup ArgsScrew \cup ArgsFastSqrt \cup ArgsDQuat
                \cup ArgsFactory \cup ArgsOrigin \cup ArgsEmbed
                \cup ArgsInverse

Next ==
  \/ RoundTrip
  \/ Compose
  \/ SqrtSquare
  \/ ExpLog
  \/ AxisAngleTranslation
  \/ ReverseRotor
  \/ TransformBasis
  \/ ScrewRoundTrip
  \/ FastSqrt
  \/ DQuatTransform
  \/ Factory
  \/ Origin
  \/ Embed
  \/ Inverse

Spec == Init /\ [][Next]_vars

LerpInit ==
  /\ pc = "call"
  /\ res = NoResult
  /\ args \in ArgsLerp \cup ArgsLerpBoth \cup ArgsEndpoints

LerpNext ==
  \/ Seplerp
  \/ Sclerp
  \/ Lielerp
  \/ LerpBoth
  \/ Endpoints

LerpSpec == LerpInit /\ [][LerpNext]_vars

FlatInit ==
  /\ pc = "call"
  /\ res = NoResult
  /\ args \in ArgsMeet \cup ArgsJoin \cup ArgsGrade \cup ArgsProject
                \cup ArgsReject \cup ArgsReflect \cup ArgsNormalized
                \cup ArgsIsVanishing \cup ArgsRegressive \cup ArgsMeet3
                \cup ArgsTransformFlat \cup ArgsIsApproxZero
                \cup ArgsReflectTwice \cup ArgsIsOn

FlatNext ==
  \/ MeetPlanes
  \/ MeetOfJoins
  \/ Grade
  \/ Project
  \/ Reject
  \/ Reflect
  \/ Normalized
  \/ IsVanishing
  \/ Regressive
  \/ Meet3
  \/ TransformFlat
  \/ IsApproxZero
  \/ ReflectTwice
  \/ IsOn

FlatSpec == FlatInit /\ [][FlatNext]_vars

Returned(fn) == pc = "done" /\ args.fn = fn

C1_RoundTripOfStoredReads ==
  (Returned("from_rotor_translation") /\ res.read = StoredMotor) =>
    (res.rotor = args.r /\ res.translation = args.t)

C2_Composition == Returned("transform_point") => res.twice = res.once

\* C2 witness: two motors that do not commute have been composed.
C2_Witness ==
  /\ Returned("transform_point")
  /\ Motor3_mul(args.m1, args.m2) # res.product
  /\ transform_point(args.p, Motor3_mul(args.m1, args.m2)) # res.once
  /\ res.twice = res.once

\* C3: sqrt(m) * sqrt(m) = m for every unit motor m, in both branches of sqrt.
C3_SqrtSquares == Returned("sqrt") => res.square = args.m

\* C3, the branch m.s >= 0: sqrt(m) * sqrt(m) = m.
C3_SqrtSquaresNonNegative ==
  (Returned("sqrt") /\ RGeq(args.m.s, I(0))) => res.square = args.m

\* C3, the branch m.s < 0: sqrt(m) * sqrt(m) = m.
C3_SqrtSquaresNegative ==
  (Returned("sqrt") /\ RLess(args.m.s, I(0))) => res.square = args.m

\* What sqrt does return: a square root of m when m is simple (e0123 = 0) and
\* m.s >= 0, and a square root of -m when m is simple and m.s < 0.
SqrtOfSimple ==
  (Returned("sqrt") /\ args.m.e0123 = I(0)) =>
    res.square = (IF RGeq(args.m.s, I(0)) THEN args.m ELSE Motor3_scale(I(-1), args.m))

\* C3 witness: the square root of a motor with a grade 4 part has been taken
\* and its square differs from the motor.
C3_Witness ==
  /\ Returned("sqrt")
  /\ args.m.e0123 # I(0)
  /\ RGeq(args.m.s, I(0))
  /\ res.square # args.m

\* C4: exp(log(m)) moves every point where m moves it.
C4_ExpLog == Returned("log") => res.moved = res.expected

\* C4 holds where the scalar part is not negative.
ExpLogNonNegative == (Returned("log") /\ RGeq(args.m.s, I(0))) => res.moved = res.expected

\* C4 witness: a translation written with scalar part -1 has gone through the
\* translational branch of log, and exp(log(m)) moves the point elsewhere.
C4_Witness ==
  /\ Returned("log")
  /\ args.m.s = I(-1)
  /\ res.line.e23 = I(0) /\ res.line.e31 = I(0) /\ res.line.e12 = I(0)
  /\ res.moved # res.expected

\* C5: seplerp(a, a, t) = a, sclerp(a, a, t) = a and lielerp(a, a, t) = a.
C5_LerpSelf ==
  (pc = "done" /\ args.fn \in {"seplerp", "sclerp", "lielerp"} /\ args.a = args.b) =>
    res.motor = args.a

\* C5, what the code does keep: lielerp(a, a, t) = a; seplerp(a, a, t) = a
\* when the reads of the halves of the motors return the stored coefficients;
\* and sclerp(a, a, t) = a when they do and the scalar part of reverse(a) * a,
\* computed in T, is 1.
C5_LerpSelfOfStoredReads ==
  (pc = "done" /\ args.fn \in {"seplerp", "sclerp", "lielerp"} /\ args.a = args.b) =>
    ((\/ args.fn = "lielerp"
      \/ args.fn = "seplerp" /\ res.read = StoredMotor
      \/ /\ args.fn = "sclerp"
         /\ res.read = StoredMotor
         /\ FlAgainstOne(Motor3_mul_s(reverse_Motor3(args.a), args.a, args.T)) = 0)
     => res.motor = args.a)

\* C5 witness: the unit motor a = (1/5, 2/5, 2/5, 4/5) has been interpolated
\* with itself by sclerp at t = 1/2 in double, every read returning the stored
\* coefficients: the scalar part of reverse(a) * a is rounded above 1, its
\* arc cosine is not a number and neither is any coefficient of the result.
C5_Witness ==
  /\ Returned("sclerp")
  /\ args.a = args.b
  /\ args.a = Motor3(Q(1, 5), Q(2, 5), Q(2, 5), Q(4, 5), I(0), I(0), I(0), I(0))
  /\ args.t = Q(1, 2)
  /\ args.T = "double"
  /\ res.read = StoredMotor
  /\ FlAgainstOne(Motor3_mul_s(reverse_Motor3(args.a), args.a, args.T)) = 1
  /\ res.motor = Motor3(NAN, NAN, NAN, NAN, NAN, NAN, NAN, NAN)

C6_Call ==
  /\ Returned("from_axis_angle_translation")
  /\ args.axis = Vec3_Y
  /\ args.angle = PI
  /\ args.translation = Vec3(I(4), I(0), I(0))
  /\ args.p = Vec3_ZERO

\* C6: from_axis_angle_translation(Y, pi, (4,0,0)) moves the origin to (4,0,0).
C6_OriginImage == C6_Call => res.moved = Vec3(I(4), I(0), I(0))

\* C6 witness: the call has been made, and the origin went to (-4,0,0).
C6_Witness == C6_Call /\ res.moved = Vec3(I(-4), I(0), I(0))

\* The call meet(plane(n, d), plane((0,0,0), delta)) has returned.
C7_Call == Returned("meet") /\ args.direction = Vec3_ZERO

\* C7: the meet of a plane of normal n with the vanishing plane
\* plane((0,0,0), delta) is the vanishing line of moment delta n, with the
\* same sign (+1) for all inputs; for n = (1,-2,3), d = 5, delta = -2 it is
\* vanishing_line((-2,4,-6)), which is vanishing_line((2,-4,6)) up to sign.
C7_MeetVanishingPlane ==
  /\ C7_Call => res.line = vanishing_line(Vec3_scale(args.delta, args.normal))
  /\ (C7_Call /\ args.normal = Vec3(I(1), I(-2), I(3)) /\ args.distance = I(5)
        /\ args.delta = I(-2)) =>
       res.line = Line3_scale(I(-1), vanishing_line(Vec3(I(2), I(-4), I(6))))

\* C7 witness: the planes plane((1,-2,3), 5) and plane((0,0,0), -2) have met in
\* the vanishing line of moment (-2,4,-6).
C7_Witness ==
  /\ C7_Call
  /\ args.normal = Vec3(I(1), I(-2), I(3)) /\ args.distance = I(5) /\ args.delta = I(-2)
  /\ res.line = Line3(I(0), I(0), I(0), I(-2), I(4), I(-6))

\* C8: for a rotor r with length_squared(r) = 1, r * reverse(r) and
\* reverse(r) * r are the identity rotor and length(r) = 1.
C8_UnitRotor ==
  (Returned("reverse") /\ length_squared_Rotor3(args.r) = I(1)) =>
    /\ res.right = Rotor3_IDENTITY
    /\ res.left = Rotor3_IDENTITY
    /\ res.length = I(1)

\* C8 witness: a unit rotor with four non-zero coefficients has been
\* multiplied by its reverse.
C8_Witness ==
  /\ Returned("reverse")
  /\ length_squared_Rotor3(args.r) = I(1)
  /\ args.r.s # I(0) /\ args.r.e23 # I(0) /\ args.r.e31 # I(0) /\ args.r.e12 # I(0)
  /\ res.right = Rotor3_IDENTITY

\* The multivector m is the point p up to a non-zero factor, that is, m
\* normalised by its coefficient of e123 is Mvec3::point(p).
IsPoint(m, p) ==
  /\ m[Basis.e123] # I(0)
  /\ \A i \in 0..15 : m[i] = m[Basis.e123] (.) Mvec3_point(p.x, p.y, p.z)[i]

\* The call on three non-collinear points has returned.
C9_Call == Returned("join") /\ NonCollinear(args.p1, args.p2, args.p3)

\* C9: for three non-collinear points, the meet of join(p1, p2) and
\* join(p2, p3) is the point p2 after normalisation.
C9_MeetOfJoinsIsPoint == C9_Call => IsPoint(res.meet, args.p2)

\* C9 as the library has it: the outer product of the lines join(p1, p2) and
\* join(p2, p3), which lie in one plane, is the zero multivector, whether the
\* lines come from join(_Point3, _Point3) or from the regressive product; the
\* two ways give the same lines.
C9_MeetOfJoinsVanishes ==
  C9_Call =>
    /\ res.meet = Mvec3_ZERO
    /\ res.meet_of_products = Mvec3_ZERO
    /\ res.j1 = AsMvec3(res.l1)
    /\ res.j2 = AsMvec3(res.l2)

\* C9 witness: two different lines through p2, with p2 not the origin, have
\* been joined and their outer product is zero.
C9_Witness ==
  /\ C9_Call
  /\ args.p2 # Vec3_ZERO
  /\ res.l1 # res.l2
  /\ res.j1 # Mvec3_ZERO /\ res.j2 # Mvec3_ZERO
  /\ res.meet = Mvec3_ZERO

\* The grade of the basis blade of data[i].
GradeOfBlade(i) ==
  IF i = 0 THEN 0 ELSE IF i <= 4 THEN 1 ELSE IF i <= 10 THEN 2 ELSE IF i <= 14 THEN 3 ELSE 4

\* a.grade(g) keeps the coefficients of a on the blades of grade g and is
\* zero on the others.
IsGradePart(graded, a, g) ==
  \A i \in 0..15 : graded[i] = (IF GradeOfBlade(i) = g THEN a[i] ELSE I(0))

\* C10: for every multivector a and every g in 0..4, a.grade(g) has the
\* coefficients of a on the blades of grade g and zero on all the others.
C10_Grade ==
  (Returned("grade") /\ args.g \in 0..4) => IsGradePart(res.graded, args.a, args.g)

\* C10 holds for the grades 0 to 3.
C10_GradeBelow4 ==
  (Returned("grade") /\ args.g \in 0..3) => IsGradePart(res.graded, args.a, args.g)

\* C10 witness: grade(4) of a multivector with a coefficient on e0123 has
\* returned the zero multivector.
C10_Witness ==
  /\ Returned("grade")
  /\ args.g = 4
  /\ args.a[Basis.e0123] # I(0)
  /\ res.graded = Mvec3_ZERO

\* The flat f is k times the flat s for some k > 0.
IsPositiveMultiple(f, s) ==
  IF \A j \in DOMAIN s : s[j] = I(0) THEN \A j \in DOMAIN f : f[j] = I(0)
  ELSE \E i \in DOMAIN s :
         /\ s[i] # I(0)
         /\ RLess(I(0), f[i] (/) s[i])
         /\ \A j \in DOMAIN s : f[j] = (f[i] (/) s[i]) (.) s[j]

\* C11: for every overload, the fast variant is a positive multiple of the
\* scaled variant: fast_project of project, fast_reject of reject and
\* fast_reflect of reflect.
C11_FastIsPositiveMultiple ==
  (pc = "done" /\ args.fn \in {"project", "reject", "reflect"}) =>
    IsPositiveMultiple(res.fast, res.scaled)

\* C11 for reflect and reject, and for project onto a plane: the factor is
\* magnitude_squared of the operand that is inverted.
C11_PositiveFactor ==
  /\ Returned("reflect") => IsPositiveMultiple(res.fast, res.scaled)
  /\ Returned("reject") => IsPositiveMultiple(res.fast, res.scaled)
  /\ (Returned("project") /\ FlatType(args.v) = "Plane3") =>
       IsPositiveMultiple(res.fast, res.scaled)

\* Projecting onto a point or a line: fast_project is the negative multiple
\* -magnitude_squared(b) of project, as reverse(b) = -b.
C11_NegativeFactor ==
  (Returned("project") /\ FlatType(args.v) # "Plane3") =>
    \A j \in DOMAIN res.fast :
      res.fast[j] = RNeg(magnitude_squared(args.v)) (.) res.scaled[j]

\* C11 witness: a plane has been projected onto a point, and the fast
\* projection is a non-zero plane that is not a positive multiple of the
\* projection.
C11_Witness ==
  /\ Returned("project")
  /\ FlatType(args.u) = "Plane3" /\ FlatType(args.v) = "Point3"
  /\ magnitude_squared(res.fast) # I(0)
  /\ ~IsPositiveMultiple(res.fast, res.scaled)

\* C12: normalized(x) of a plane or line x is x / magnitude(x) when x is not
\* vanishing and x / vanishing_magnitude(x) when x is vanishing with a
\* non-zero ideal part.
C12_Normalized ==
  Returned("normalized") =>
    res.normalized =
      Flat_div(args.x, IF is_vanishing(args.x) THEN vanishing_magnitude(args.x)
                       ELSE magnitude(args.x))

\* C12 for lines, and for planes that are not vanishing.
C12_NormalizedLine ==
  (Returned("normalized") /\ (FlatType(args.x) = "Line3" \/ ~is_vanishing(args.x))) =>
    res.normalized =
      Flat_div(args.x, IF is_vanishing(args.x) THEN vanishing_magnitude(args.x)
                       ELSE magnitude(args.x))

\* A vanishing plane is normalized to the constant plane (0, 0, 0, -1).
C12_NormalizedVanishingPlane ==
  (Returned("normalized") /\ FlatType(args.x) = "Plane3" /\ is_vanishing(args.x)) =>
    res.normalized = Plane3(I(0), I(0), I(0), I(-1))

\* C12 witness: a vanishing plane with e0 > 0 has been normalized, and the
\* result is not the plane divided by |e0|.
C12_Witness ==
  /\ Returned("normalized")
  /\ FlatType(args.x) = "Plane3" /\ is_vanishing(args.x)
  /\ RLess(I(0), args.x.e0)
  /\ res.normalized # Flat_div(args.x, vanishing_magnitude(args.x))

\* C13: is_vanishing(x) is true exactly when magnitude_squared(x) is below
\* KMATH_EPSILON2, for planes, lines and points; a flat whose
\* magnitude_squared is below KMATH_EPSILON only is not vanishing.
C13_IsVanishing ==
  Returned("is_vanishing") =>
    /\ res.vanishing = BelowEpsilon2(magnitude_squared(args.x))
    /\ (RLess(magnitude_squared(args.x), KMATH_EPSILON)
          /\ ~BelowEpsilon2(magnitude_squared(args.x))) => ~res.vanishing

\* C13 witness: is_vanishing has returned false for a point whose
\* magnitude_squared is below KMATH_EPSILON but not below KMATH_EPSILON2.
C13_Witness ==
  /\ Returned("is_vanishing")
  /\ FlatType(args.x) = "Point3"
  /\ RLess(magnitude_squared(args.x), KMATH_EPSILON)
  /\ ~BelowEpsilon2(magnitude_squared(args.x))
  /\ res.vanishing = FALSE

\* C14: transform(X, r), transform(Y, r) and transform(Z, r) are the basis
\* vectors get_x_basis_vector(r), get_y_basis_vector(r) and
\* get_z_basis_vector(r) of the unit rotor r, and transform(w, IDENTITY) = w.
C14_TransformBasis ==
  Returned("transform") =>
    /\ res.x = res.x_basis
    /\ res.y = res.y_basis
    /\ res.z = res.z_basis
    /\ res.identity = args.w

\* What transform returns: the opposite of the basis vectors of the reverse
\* rotor, and transform(w, IDENTITY) = -w.
C14_TransformOpposite ==
  Returned("transform") =>
    /\ res.x = Vec3_scale(I(-1), get_x_basis_vector(reverse_Rotor3(args.r)))
    /\ res.y = Vec3_scale(I(-1), get_y_basis_vector(reverse_Rotor3(args.r)))
    /\ res.z = Vec3_scale(I(-1), get_z_basis_vector(reverse_Rotor3(args.r)))
    /\ res.identity = Vec3_scale(I(-1), args.w)

\* C14 witness: transform has returned -w for a non-zero vector w and the
\* identity rotor.
C14_Witness ==
  /\ Returned("transform")
  /\ args.w # Vec3_ZERO
  /\ res.identity = Vec3_scale(I(-1), args.w)
  /\ res.identity # args.w

\* C15: sclerp(a, b, t) and lielerp(a, b, t) return the same motor and move
\* every point to the same place.
C15_SclerpIsLielerp ==
  Returned("sclerp_lielerp") =>
    (res.sclerp = res.lielerp /\ res.sclerp_moved = res.lielerp_moved)

\* C15, what the code does keep: when a and b differ by a pure translation
\* (reverse(a) * b has scalar part 1 and no rotation) and the reads of the
\* halves of reverse(a) * b return the stored coefficients, sclerp and
\* lielerp return the same motor.
C15_TranslationAgrees ==
  (Returned("sclerp_lielerp")
     /\ res.read = StoredMotor
     /\ Motor3_mul(reverse_Motor3(args.a), args.b).s = I(1)
     /\ get_real_part(Motor3_mul(reverse_Motor3(args.a), args.b), StoredMotor)
          = Rotor3(I(1), I(0), I(0), I(0)))
  => res.sclerp = res.lielerp

\* C15 witness: a and b differ by a half turn with translation, t = 1, and the
\* two interpolations have returned motors that move the point apart.
C15_Witness ==
  /\ Returned("sclerp_lielerp")
  /\ args.t = I(1)
  /\ Motor3_mul(reverse_Motor3(args.a), args.b).s = I(0)
  /\ get_translation(args.b, StoredMotor) # Vec3_ZERO
  /\ res.lielerp = args.b
  /\ res.sclerp # res.lielerp
  /\ res.sclerp_moved # res.lielerp_moved

\* C16: for a unit motor m whose rotation angle is not approximately zero,
\* from_screw_coordinates on the screw coordinates written by
\* to_screw_coordinates(m) returns m.
C16_ScrewRoundTrip ==
  (Returned("to_screw") /\ ~is_approx_zero(res.screw.angle)) => res.back = args.m

\* C16, what the code does keep: the round trip returns m when m is a half
\* turn (m.s = 0) whose pseudoscalar part e0123 is zero.
C16_HalfTurnRoundTrip ==
  (Returned("to_screw") /\ args.m.s = I(0) /\ args.m.e0123 = I(0)) => res.back = args.m

\* C16 witness: a half turn with a translation along its axis went through the
\* round trip, which lost the pseudoscalar part.
C16_Witness ==
  /\ Returned("to_screw")
  /\ ~is_approx_zero(res.screw.angle)
  /\ args.m.s = I(0)
  /\ args.m.e0123 # I(0)
  /\ res.back = [args.m EXCEPT !.e0123 = I(0)]

C17_ScrewOfStoredReads ==
  (Returned("to_screw") /\ is_approx_zero(res.screw.angle)) =>
    /\ res.screw.moment = Vec3_INF
    /\ (res.read = StoredMotor =>
          /\ res.screw.translation = length_Vec3(get_translation(args.m, StoredMotor))
          /\ res.screw.direction =
               IF is_approx_zero(res.screw.translation)
               THEN Vec3_ZERO
               ELSE Vec3_div(get_translation(args.m, StoredMotor), res.screw.translation))

C18_FastSqrt ==
  (Returned("fast_sqrt") /\ args.m.s # I(-1)) => IsPositiveMultiple(res.fast, res.root)

\* C18, what the code does keep: fast_sqrt(m) is a positive multiple of
\* sqrt(m) when m.s >= 0, the factor being (1 + m.s) * sqrt(2 * (1 + m.s)).
C18_FastSqrtNonNegative ==
  (Returned("fast_sqrt") /\ RGeq(args.m.s, I(0))) =>
    /\ IsPositiveMultiple(res.fast, res.root)
    /\ res.fast.s = ((I(1) (+) args.m.s) (.) RSqrt(I(2) (.) (I(1) (+) args.m.s))) (.) res.root.s

\* C18 witness: a motor with -1 < m.s < 0, a rotation and a translation went
\* through both square roots, whose scalar parts came back with opposite signs.
C18_Witness ==
  /\ Returned("fast_sqrt")
  /\ RLess(args.m.s, I(0))
  /\ args.m.s # I(-1)
  /\ get_translation(args.m, StoredMotor) # Vec3_ZERO
  /\ RLess(I(0), res.fast.s)
  /\ RLess(res.root.s, I(0))

\* C19: the regressive product is the Hodge dual of the outer product of the
\* duals: (a | b) = (a.hdual() & b.hdual()).hdual().
C19_RegressiveIsDualOuter ==
  Returned("regressive") => res.regressive = res.dual_outer

\* C19, what the code does keep: the two sides have the same scalar,
\* trivector and pseudoscalar coefficients (slots 0 and 11 to 15), and they
\* are equal when a is a multiple of the pseudoscalar e0123.
C19_AgreeOutsideVectorsAndBivectors ==
  Returned("regressive") =>
    /\ \A i \in {0} \cup (11..15) : res.regressive[i] = res.dual_outer[i]
    /\ (\A i \in 0..14 : args.a[i] = I(0)) => res.regressive = res.dual_outer

\* C19 witness: two multivectors with trivector parts went through both
\* products, which returned different vector and bivector coefficients.
C19_Witness ==
  /\ Returned("regressive")
  /\ \E i \in 11..14 : args.a[i] # I(0)
  /\ \E i \in 11..14 : args.b[i] # I(0)
  /\ \E i \in 1..4 : res.regressive[i] # res.dual_outer[i]
  /\ \E i \in 5..10 : res.regressive[i] # res.dual_outer[i]

\* C20: the dual quaternion and the motor built from one unit axis, angle
\* and translation move every point p to the same place.
C20_DQuatIsMotor ==
  Returned("unit_conjugate") => res.dquat_moved = res.motor_moved

\* C20, what the code does keep: the dual quaternion and the motor move p to
\* the same place when there is no translation or no rotation.
C20_AgreeOnRotationOrTranslation ==
  (Returned("unit_conjugate") /\ (args.translation = Vec3_ZERO \/ args.angle = I(0))) =>
    res.dquat_moved = res.motor_moved

\* C20 witness: a half turn about Z followed by the translation (0, 1, 0) was
\* applied to the origin; the dual quaternion moved it to (0, 1, 0), the
\* motor elsewhere.
C20_Witness ==
  /\ Returned("unit_conjugate")
  /\ args.axis = Vec3_Z
  /\ args.angle = PI
  /\ args.translation = Vec3(I(0), I(1), I(0))
  /\ args.p = Vec3_ZERO
  /\ res.dquat_moved = args.translation
  /\ res.motor_moved # res.dquat_moved

\* The incidence form p.e1*X.e032 + p.e2*X.e013 + p.e3*X.e021 + p.e0*X.e123 of
\* a plane p and a point X.
Incidence(p, X) ==
  Polynomial(<< <<1, p.e1, X.e032>>, <<1, p.e2, X.e013>>, <<1, p.e3, X.e021>>,
                <<1, p.e0, X.e123>> >>)

\* C21: the point X = meet(a, b, c) of three planes lies on each of them:
\* the incidence form of X with a, with b and with c is zero.
C21_Meet3Incidence ==
  Returned("meet3") =>
    \A p \in {args.u, args.v, args.x} : Incidence(p, res.point) = I(0)

\* C21 witness: three different planes have met in a finite point.
C21_Witness ==
  /\ Returned("meet3")
  /\ args.u # args.v /\ args.u # args.x /\ args.v # args.x
  /\ res.point.e123 # I(0)

\* C22: for a motor m and a plane, line or point x, transform(x, m) is the
\* part of the sandwich product M * X * rev(M) on the basis blades of x.
C22_TransformIsSandwich ==
  Returned("transform_flat") =>
    \A f \in DOMAIN args.x : res.transformed[f] = res.sandwich[Basis[f]]

\* C22 witness: a line went through a motor with a rotation, a translation
\* and a pseudoscalar part, and came back moved.
C22_Witness ==
  /\ Returned("transform_flat")
  /\ FlatType(args.x) = "Line3"
  /\ args.m.s # I(0) /\ args.m.e23 # I(0) /\ args.m.e0123 # I(0)
  /\ res.transformed # args.x
  /\ \A f \in DOMAIN args.x : res.transformed[f] = res.sandwich[Basis[f]]

\* C23: in every revision of the library (utils.hpp, kmath.hpp, kmath.cpp),
\* is_approx_zero of a real scalar x is true exactly when |x| < KMATH_EPSILON.
C23_IsApproxZero ==
  Returned("is_approx_zero") =>
    /\ res.utils <=> RLess(RAbs(args.scalar), KMATH_EPSILON)
    /\ res.hpp <=> RLess(RAbs(args.scalar), KMATH_EPSILON)
    /\ res.cpp <=> RLess(RAbs(args.scalar), KMATH_EPSILON)

\* C23, what the code does keep: the two header revisions compare |x| with
\* the epsilon, and kmath.cpp agrees with them for x >= 0.
C23_IsApproxZeroHeaders ==
  Returned("is_approx_zero") =>
    /\ res.utils <=> RLess(RAbs(args.scalar), KMATH_EPSILON)
    /\ res.hpp <=> RLess(RAbs(args.scalar), KMATH_EPSILON)
    /\ RGeq(args.scalar, I(0)) => (res.cpp <=> res.utils)

\* C23 witness: is_approx_zero of -2 has returned false in the headers and
\* true in kmath.cpp.
C23_Witness ==
  /\ Returned("is_approx_zero")
  /\ args.scalar = I(-2)
  /\ ~res.utils /\ ~res.hpp /\ res.cpp

\* C24: each motor factory returns m with a real part of unit magnitude and
\* m * reverse(m) = Motor3::IDENTITY, all dual coefficients of the product
\* being zero.
C24_FactoriesAreValid ==
  Returned("factory") =>
    /\ length_squared_Rotor3(get_real_part(res.m, StoredMotor)) = I(1)
    /\ res.product = Motor3(I(1), I(0), I(0), I(0), I(0), I(0), I(0), I(0))

\* C24, what the code does keep: the real part of every factory's motor is
\* of unit magnitude; m * reverse(m) is the identity for the motors of
\* from_translation, from_rotor, from_rotor_translation and
\* from_axis_angle_translation; and for the motor of from_screw_coordinates
\* it is the identity but for e0123, which is -translation * sin(angle).
C24_ScrewProduct ==
  Returned("factory") =>
    /\ length_squared_Rotor3(get_real_part(res.m, StoredMotor)) = I(1)
    /\ res.product =
         Motor3(I(1), I(0), I(0), I(0),
                IF args.make = "from_screw_coordinates"
                THEN RNeg(args.distance (.) RSin(args.angle))
                ELSE I(0),
                I(0), I(0), I(0))

\* C24 witness: from_screw_coordinates has built a quarter turn about x
\* with the moment 0 and the translation 5 along the axis: the real part of
\* the motor is of unit magnitude and the e0123 of m * reverse(m) is -5.
C24_Witness ==
  /\ Returned("factory")
  /\ args.make = "from_screw_coordinates"
  /\ args.axis = Vec3_X
  /\ args.moment = Vec3_ZERO
  /\ args.angle = PI (/) I(2)
  /\ args.distance = I(5)
  /\ res.m = Motor3(HALF_SQRT2, HALF_SQRT2, I(0), I(0),
                    RNeg(Q(5, 4) (.) SQRT2), Q(5, 4) (.) SQRT2, I(0), I(0))
  /\ res.product = Motor3(I(1), I(0), I(0), I(0), I(-5), I(0), I(0), I(0))

\* C25: each of seplerp, sclerp and lielerp returns a at t = 0, and at t = 1
\* a motor that moves every point to the same place as b.
C25_Endpoints ==
  Returned("endpoints") =>
    /\ args.t = I(0) =>
         (res.seplerp = args.a /\ res.sclerp = args.a /\ res.lielerp = args.a)
    /\ args.t = I(1) =>
         (res.seplerp_moved = res.b_moved /\ res.sclerp_moved = res.b_moved
            /\ res.lielerp_moved = res.b_moved)

\* C25, the part of seplerp, when the reads of the halves of the motors
\* return the stored coefficients
C25_SeplerpEndpoints ==
  (Returned("endpoints") /\ res.read = StoredMotor) =>
    /\ args.t = I(0) => res.seplerp = args.a
    /\ args.t = I(1) => res.seplerp_moved = res.b_moved

\* C25, the part at t = 0: sclerp and lielerp return a, when the reads of
\* the halves of the motors return the stored coefficients
C25_Start ==
  (Returned("endpoints") /\ res.read = StoredMotor /\ args.t = I(0)) =>
    (res.sclerp = args.a /\ res.lielerp = args.a)

\* C25: a call at t = 1 between two different unit motors, where seplerp moves
\* the point as b does and sclerp does not.
C25_Witness ==
  /\ Returned("endpoints")
  /\ args.t = I(1)
  /\ args.a # args.b
  /\ res.read = StoredMotor
  /\ res.seplerp_moved = res.b_moved
  /\ res.sclerp_moved # res.b_moved

\* C26: for m = from_rotor_translation(r, t) with r a unit rotor,
\* transform_point((0,0,0), m) = get_translation(m).
C26_OriginIsTranslation ==
  Returned("get_translation") => res.moved = res.translation

\* C26, for the rotors without bivector part (r = 1 or r = -1): the origin
\* goes to get_translation(m), when the reads of the halves of m return the
\* stored coefficients.
C26_OriginOfTranslator ==
  (Returned("get_translation") /\ res.read = StoredMotor
     /\ args.r.e23 = I(0) /\ args.r.e31 = I(0) /\ args.r.e12 = I(0)) =>
    res.moved = res.translation

\* C26: a call with a rotor that moves t, where the origin does not go to
\* get_translation(m) = t.
C26_Witness ==
  /\ Returned("get_translation")
  /\ args.r = Rotor3(I(0), I(1), I(0), I(0))
  /\ args.t = Vec3(I(1), I(-2), I(3))
  /\ res.read = StoredMotor
  /\ res.translation = args.t
  /\ res.moved = Vec3(I(1), I(2), I(-3))

\* C27: from_rotor(a * b) = from_rotor(a) * from_rotor(b) for all rotors a, b,
\* and transform(v, r) = transform_direction(v, from_rotor(r)) for every unit
\* rotor r and vector v.
C27_Embedding ==
  Returned("from_rotor") =>
    (res.of_product = res.product /\ res.transformed = res.direction)

\* C27, the part of the product: from_rotor(a * b) is the product of the
\* motors taken in the other order, from_rotor(b) * from_rotor(a).
C27_EmbeddingOfExchangedProduct ==
  Returned("from_rotor") => res.of_product = res.exchanged

\* C27, the part of the action: transform(v, r) is the opposite of
\* transform_direction(v, from_rotor(r)).
C27_OppositeAction ==
  Returned("from_rotor") => res.transformed = Vec3_scale(I(-1), res.direction)

\* C27: a call with two rotors that do not commute and a vector w # 0, where
\* neither the products nor the two transforms agree.
C27_Witness ==
  /\ Returned("from_rotor")
  /\ Rotor3_mul(args.ra, args.rb) # Rotor3_mul(args.rb, args.ra)
  /\ args.w # Vec3_ZERO
  /\ res.of_product # res.product
  /\ res.transformed # res.direction

\* C28: for every plane, line or point a and every non-vanishing plane, line
\* or point b, reflect(reflect(a, b), b) = a, and
\* fast_reflect(fast_reflect(a, b), b) = magnitude_squared(b)^2 * a.
C28_ReflectInvolution ==
  (Returned("reflect_twice") /\ ~is_vanishing(args.v)) =>
    /\ res.twice = args.u
    /\ res.fast_twice =
         [f \in DOMAIN args.u |->
            magnitude_squared(args.v) (.) magnitude_squared(args.v) (.) args.u[f]]

\* C28, for the pairings other than a plane or a point reflected in a line:
\* reflect(reflect(a, b), b) = a and
\* fast_reflect(fast_reflect(a, b), b) = magnitude_squared(b)^2 * a.
C28_InvolutionOutsideLines ==
  (/\ Returned("reflect_twice")
   /\ ~is_vanishing(args.v)
   /\ (FlatType(args.v) # "Line3" \/ FlatType(args.u) = "Line3")) =>
    /\ res.twice = args.u
    /\ res.fast_twice =
         [f \in DOMAIN args.u |->
            magnitude_squared(args.v) (.) magnitude_squared(args.v) (.) args.u[f]]

\* C28: the plane (0, 3, 4, -1) has been reflected twice in the line
\* (2, -1, 2, 1, 4, 1), of squared magnitude 9, and did not come back.
C28_Witness ==
  /\ Returned("reflect_twice")
  /\ args.u = Plane3(I(0), I(3), I(4), I(-1))
  /\ args.v = Line3(I(2), I(-1), I(2), I(1), I(4), I(1))
  /\ ~is_vanishing(args.v)
  /\ res.fast_twice = Plane3(I(8), I(-61), I(204), I(175))
  /\ res.twice # args.u

\* C29: for every rotor r with length_squared(r) # 0, unit or not,
\* r * inverse(r) = IDENTITY and inverse(r) * r = IDENTITY.
C29_InverseIsTwoSided ==
  (Returned("inverse") /\ length_squared_Rotor3(args.r) # I(0)) =>
    (res.right = Rotor3_IDENTITY /\ res.left = Rotor3_IDENTITY)

\* C29: inverse(r) is r divided by its squared length, so both products are
\* r * r / length_squared(r); they are the identity for the rotors without
\* bivector part.
C29_InverseOfScalar ==
  Returned("inverse") =>
    /\ res.right = Rotor3_div(Rotor3_mul(args.r, args.r), length_squared_Rotor3(args.r))
    /\ res.left = res.right
    /\ (args.r.e23 = I(0) /\ args.r.e31 = I(0) /\ args.r.e12 = I(0)) =>
         res.right = Rotor3_IDENTITY

\* C29: the inverse of the rotor (0, 0, 2, 0), of squared length 4, has been
\* taken and both products are -IDENTITY.
C29_Witness ==
  /\ Returned("inverse")
  /\ args.r = Rotor3(I(0), I(0), I(2), I(0))
  /\ res.inverse = Rotor3(I(0), I(0), Q(1, 2), I(0))
  /\ res.right = Rotor3(I(-1), I(0), I(0), I(0))
  /\ res.left = Rotor3(I(-1), I(0), I(0), I(0))

\* C30: for every finite point X and non-vanishing plane p, of T = float or
\* T = double, is_on(X, p) is true exactly when p.e1*X.e032 + p.e2*X.e013 + p.e3*X.e021 + p.e0*X.e123 is
\* approximately zero.
C30_IsOnDecidesIncidence ==
  (Returned("is_on") /\ ~is_vanishing(args.u) /\ ~is_vanishing(args.v)) =>
    (res.is_on <=> is_approx_zero(Incidence(args.v, args.u)))

\* C30: is_on(X, p) tells whether the line inner(p, X) is approximately zero,
\* and for a finite point and a non-vanishing plane of the inputs it is false
\* when the read of the line returns the stored coefficients, and true when
\* it returns zeros.
C30_IsOnIsFalse ==
  (Returned("is_on") /\ ~is_vanishing(args.u) /\ ~is_vanishing(args.v)) =>
    /\ res.read = Stored => res.is_on = FALSE
    /\ res.read = [stale |-> TRUE, value |-> I(0)] => res.is_on = TRUE
    /\ res.inner.e23 = args.v.e1 (.) args.u.e123
    /\ res.inner.e31 = args.v.e2 (.) args.u.e123
    /\ res.inner.e12 = args.v.e3 (.) args.u.e123

\* C30: is_on has been asked for the point (0, 0, 2, 1), which lies on the
\* plane (1, 2, -2, 4), with T = float, and has answered false.
C30_Witness ==
  /\ Returned("is_on")
  /\ args.T = "float"
  /\ args.u = Point3(I(0), I(0), I(2), I(1))
  /\ args.v = Plane3(I(1), I(2), I(-2), I(4))
  /\ Incidence(args.v, args.u) = I(0)
  /\ res.read = Stored
  /\ res.is_on = FALSE

====
